---- MODULE Spec2Model ----
(***************************************************************************)
(* A model of the data-driven core of the neu engine: the ResourceManager  *)
(* cache (Resources/ResourceManager.h), the Factory registry               *)
(* (Core/Factory.h) and the Actor/Component ownership tree                 *)
(* (Framework/Actor.cpp).                                                  *)
(*                                                                         *)
(* Strings are sequences of character codes, so that toLower is computed   *)
(* per character as the code computes it.  An object on the heap is named  *)
(* by a number, its address: a new object takes the lowest address that no *)
(* live object occupies, as an allocator may hand out a freed address.     *)
(***************************************************************************)
EXTENDS Integers, Sequences, FiniteSets, TLC

\* ------------------------------------------------------------------ bounds
\* Resource instances that fit on the heap at the same time
MaxRes == 4

\* Actors that are in the Scene at the same time
MaxActors == 3

\* ----------------------------------------------------------- StringHelper
NULL == 0

Empty == << >>

\* std::tolower in the "C" locale, on the ASCII range
tolower(c) == IF c >= 65 /\ c <= 90 THEN c + 32 ELSE c

toLower(str) == [i \in 1..Len(str) |-> tolower(str[i])]

\* "Foo", "foo", "Bar"
Names == { <<70, 111, 111>>, <<102, 111, 111>>, <<66, 97, 114>> }

Range(f) == { f[x] : x \in DOMAIN f }

\* ------------------------------------------------------- Resource classes
\* the classes requested from outside; Program and CubeMap are requested by
\* Material::Load only
ResTypes == { "Texture", "RenderTexture", "Material" }

\* std::dynamic_pointer_cast<T>(base) succeeds: the dynamic class D is T or
\* derives from T (RenderTexture : public Texture)
ResIsA(D, T) == D = T \/ (D = "RenderTexture" /\ T = "Texture")

\* The documents Material::Load may find under a file name: the resource
\* names of its fields (Empty: the field is absent from the document).
MaterialDocs ==
    { [ program |-> <<66, 97, 114>>, baseMap |-> <<102, 111, 111>>,
        specularMap |-> Empty, emissiveMap |-> Empty, normalMap |-> Empty,
        cubeMap |-> Empty ],
      [ program |-> <<70, 111, 111>>, baseMap |-> Empty,
        specularMap |-> Empty, emissiveMap |-> Empty, normalMap |-> Empty,
        cubeMap |-> <<66, 97, 114>> ],
      [ program |-> <<66, 97, 114>>, baseMap |-> <<66, 97, 114>>,
        specularMap |-> <<66, 97, 114>>, emissiveMap |-> Empty,
        normalMap |-> <<66, 97, 114>>, cubeMap |-> Empty ] }

NoDoc == [ program |-> Empty, baseMap |-> Empty, specularMap |-> Empty,
           emissiveMap |-> Empty, normalMap |-> Empty, cubeMap |-> Empty ]

\* What the outside world answers to one request: ok is the result of the
\* requested resource's own file read, doc the document a Material finds,
\* sub the result of the Load of every resource the document names.
LoadOutcomes(T) ==
    IF T = "Material"
    THEN { [ok |-> FALSE, doc |-> NoDoc, sub |-> FALSE] }
         \cup [ ok : {TRUE}, doc : MaterialDocs, sub : BOOLEAN ]
    ELSE [ ok : BOOLEAN, doc : {NoDoc}, sub : {FALSE} ]

VARIABLES
    m_resources,   \* ResourceManager::m_resources: canonical key -> instance
    resObjs,       \* the live Resource instances: instance -> its fields
    resHeld,       \* the instance a caller's handle field refers to, if any
    displaced,     \* live instances that were taken out of the cache
    given,         \* the handles Get returned since the last RemoveAll
    rmLast,        \* the last ResourceManager call and what it did
    m_registry,    \* Factory::m_registry: canonical name -> creator
    actors,        \* the live Actor instances: instance -> its fields
    components,    \* the live Component instances: instance -> its fields
    heldActors,    \* the Actor each unique_ptr<Actor> of a caller owns, if any
    moved,         \* where the last operation moved the objects it left alive
    regLog,        \* the registrations made since the Factory was last cleared
    fLast,         \* the last Factory call and what it did
    m_actors,      \* Scene::m_actors: the Actors of the Scene, in list order
    sLast,         \* the last call of the Scene or of an Actor and what it did
    m_observers,   \* EventManager::m_observers: canonical id -> observer list
    added,         \* the registrations that were made and not taken back
    eLast          \* the last EventManager call and what it did

rmVars == << m_resources, resObjs, resHeld, displaced, given, rmLast >>

facVars == << m_registry, actors, components, heldActors, moved, regLog, fLast,
             m_actors, sLast >>

evVars == << m_observers, added, eLast >>

vars == << rmVars, facVars, evVars >>

\* ---------------------------------------------------------- EventManager
\* The objects that implement IObserver; OnNotify of an observer does not
\* call the EventManager.
Observers == { "first", "second", "third" }

\* the registrations an EventManager holds at most
MaxRegs == 3

\* the observer is added only if the list does not hold it yet
AddObserverOnce(obs, id, observer) ==
    IF toLower(id) \in DOMAIN obs
    THEN IF \E n \in 1..Len(obs[toLower(id)]) : obs[toLower(id)][n] = observer
         THEN obs
         ELSE [ obs EXCEPT ![toLower(id)] = Append(@, observer) ]
    ELSE (toLower(id) :> << observer >>) @@ obs

\* EventManager::AddObserver: m_observers[toLower(id)].push_back(&observer)
AddObserver(obs, id, observer) ==
    IF toLower(id) \in DOMAIN obs
    THEN [ obs EXCEPT ![toLower(id)] = Append(@, observer) ]
    ELSE (toLower(id) :> << observer >>) @@ obs

\* the observer is erased from every list, and the lists stay in the map
RemoveObserverKeepEmpty(obs, observer) ==
    [ k \in DOMAIN obs |-> SelectSeq(obs[k], LAMBDA o : o # observer) ]

\* EventManager::RemoveObserver: the observer is erased from every list, and
\* a list that is empty then is erased from the map
RemoveObserver(obs, observer) ==
    LET rest == [ k \in DOMAIN obs |-> SelectSeq(obs[k], LAMBDA o : o # observer) ]
    IN  [ k \in { j \in DOMAIN obs : rest[j] # << >> } |-> rest[k] ]

\* the id is looked up as it is spelled
ObserverKeyExact(id) == id

\* the key that Notify looks the observers up under: toLower(event.id)
ObserverKey(id) == toLower(id)

\* EventManager::Notify: the calls of OnNotify it makes, each with the
\* observer called and the id of the event passed
Notify(obs, id) ==
    IF ObserverKey(id) \in DOMAIN obs
    THEN [ n \in 1..Len(obs[ObserverKey(id)]) |->
               [ observer |-> obs[ObserverKey(id)][n], id |-> id ] ]
    ELSE << >>

\* what a caller sees of a call of the EventManager
ECallRecord(op, id, observer, calls) ==
    [ op |-> op, id |-> id, observer |-> observer, calls |-> calls,
      tick |-> 1 - eLast.tick, fired |-> << >>, lists |-> << >>,
      ub |-> "none" ]

NoECall ==
    [ op |-> "none", id |-> << >>, observer |-> "none", calls |-> << >>,
      tick |-> 0, fired |-> << >>, lists |-> << >>, ub |-> "none" ]

\* the registrations held
Registrations(obs) ==
    { r \in (DOMAIN obs) \X (1..MaxRegs) : r[2] <= Len(obs[r[1]]) }

\* EventManager::Instance().AddObserver(id, observer)
EAddObserver(id, observer) ==
    /\ Cardinality(Registrations(m_observers)) < MaxRegs
    /\ m_observers' = AddObserver(m_observers, id, observer)
    /\ added' = Append(added, [ id |-> id, observer |-> observer ])
    /\ eLast' = ECallRecord("AddObserver", id, observer, << >>)
    /\ UNCHANGED << rmVars, facVars >>

\* EventManager::Instance().RemoveObserver(observer)
ERemoveObserver(observer) ==
    /\ m_observers' = RemoveObserver(m_observers, observer)
    /\ added' = SelectSeq(added, LAMBDA r : r.observer # observer)
    /\ eLast' = ECallRecord("RemoveObserver", << >>, observer, << >>)
    /\ UNCHANGED << rmVars, facVars >>

\* EventManager::Instance().Notify({ id, data })
ENotify(id) ==
    /\ eLast' = ECallRecord("Notify", id, "none", Notify(m_observers, id))
    /\ UNCHANGED << m_observers, added, rmVars, facVars >>

\* EventManager::Instance().RemoveAll(): m_observers.clear()
ERemoveAll ==
    /\ m_observers' = << >>
    /\ added' = << >>
    /\ eLast' = ECallRecord("RemoveAll", << >>, "none", << >>)
    /\ UNCHANGED << rmVars, facVars >>

\* ---------------------------------- observers that change the EventManager
\* What an observer's OnNotify does with the EventManager the first time it
\* is called in a dispatch: nothing, AddObserver(event.id, observer), or
\* RemoveObserver(observer).
NoReaction == [ kind |-> "none", observer |-> "none" ]

Reactions ==
    { NoReaction }
        \cup { [ kind |-> k, observer |-> o ] : k \in { "add", "remove" },
                                               o \in Observers }

\* What ++it does when the node it stands on has been erased, which is
\* undefined: the process ends; the loop goes on at the next node that is
\* in the list; the loop follows the pointers of the erased nodes, which
\* were erased from front to back and so still lead through the erased
\* nodes behind them.
DanglingOutcomes == { "terminate", "skip", "stale" }

\* the process has not ended in a dispatch
ERunning == eLast.ub # "terminate"

\* it->second of the map entry found for the key, or no list
Bucket(obs, key) == IF key \in DOMAIN obs THEN obs[key] ELSE << >>

\* the call of the EventManager that OnNotify makes
React(d, id, r) ==
    CASE r.kind = "add" ->
             [ obs |-> AddObserver(d.obs, id, r.observer),
               added |-> Append(d.added, [ id |-> id, observer |-> r.observer ]) ]
      [] r.kind = "remove" ->
             [ obs |-> RemoveObserver(d.obs, r.observer),
               added |-> SelectSeq(d.added, LAMBDA a : a.observer # r.observer) ]
      [] OTHER -> d

\* the loop ends where the list ended when the dispatch began
DispatchEndAtBegin(list, begun) ==
    IF Len(begun) < Len(list) THEN Len(begun) ELSE Len(list)

\* the range-for compares with observers.end() before every step: the loop
\* ends where the list ends then
DispatchEnd(list, begun) == Len(list)

\* the erased nodes that follow place p of the list directly
RECURSIVE ErasedRun(_, _, _)
ErasedRun(list, p, o) ==
    IF p < Len(list) /\ list[p + 1] = o
    THEN << o >> \o ErasedRun(list, p + 1, o)
    ELSE << >>

\* for (auto observer : observers) observer->OnNotify(event), from place p
\* of the list on; react is what the observers' OnNotify will do, ub what
\* the build does when the node the loop stands on is erased
RECURSIVE Dispatch(_, _, _, _, _, _, _)
Dispatch(d, id, p, react, ub, begun, out) ==
    LET list == Bucket(d.obs, ObserverKey(id))
    IN  IF p > DispatchEnd(list, begun)
        THEN [ obs |-> d.obs, added |-> d.added, calls |-> out.calls,
               fired |-> out.fired, lists |-> out.lists, ub |-> out.ub ]
        ELSE LET o == list[p]
                 r == react[o]
                 e == React(d, id, r)
                 rest == [ react EXCEPT ![o] = NoReaction ]
                 gone == Cardinality({ n \in 1..(p - 1) : list[n] = r.observer })
                 called == [ calls |-> Append(out.calls, [ observer |-> o, id |-> id ]),
                             fired |-> IF r = NoReaction THEN out.fired
                                       ELSE Append(out.fired,
                                                   [ at |-> Len(out.calls) + 1,
                                                     kind |-> r.kind,
                                                     observer |-> r.observer ]),
                             lists |-> Append(out.lists, list),
                             ub |-> out.ub ]
                 run == ErasedRun(list, p, o)
             IN  IF r.kind # "remove"
                 THEN Dispatch(e, id, p + 1, rest, ub, begun, called)
                 ELSE IF r.observer # o
                 THEN Dispatch(e, id, p - gone + 1, rest, ub, begun, called)
                 ELSE IF ub = "terminate"
                 THEN [ obs |-> e.obs, added |-> e.added, calls |-> called.calls,
                        fired |-> called.fired, lists |-> called.lists,
                        ub |-> ub ]
                 ELSE IF ub = "skip"
                 THEN Dispatch(e, id, p - gone, rest, ub, begun,
                               [ called EXCEPT !.ub = ub ])
                 ELSE Dispatch(e, id, p - gone, rest, ub, begun,
                               [ called EXCEPT
                                     !.ub = ub,
                                     !.calls = @ \o [ n \in 1..Len(run) |->
                                                        [ observer |-> o, id |-> id ] ],
                                     !.lists = @ \o [ n \in 1..Len(run) |->
                                                        Bucket(e.obs, ObserverKey(id)) ] ])

\* EventManager::Instance().Notify({ id, data }) with observers whose
\* OnNotify calls the EventManager
ENotifyReacting(id, react, ub) ==
    /\ ERunning
    /\ Cardinality(Registrations(m_observers))
           + Cardinality({ o \in Observers : react[o].kind = "add" }) <= MaxRegs
    /\ \E r \in { Dispatch([ obs |-> m_observers, added |-> added ], id, 1, react,
                           ub, Bucket(m_observers, ObserverKey(id)),
                           [ calls |-> << >>, fired |-> << >>, lists |-> << >>,
                             ub |-> "none" ]) } :
           /\ m_observers' = r.obs
           /\ added' = r.added
           /\ eLast' = [ ECallRecord("Notify", id, "none", r.calls)
                             EXCEPT !.fired = r.fired, !.lists = r.lists,
                                    !.ub = r.ub ]
    /\ UNCHANGED << rmVars, facVars >>

\* the observers whose OnNotify calls the EventManager
Reacting == { "first", "second" }

\* what the observers' OnNotify will do in a dispatch: the first adds or
\* removes an observer, the second removes one
ReactionsOf ==
    { react \in [ Observers -> Reactions ] :
          /\ \A o \in Observers \ Reacting : react[o] = NoReaction
          /\ react["second"].kind # "add" }

\* Inputs that differ only in what an observer that cannot be called would
\* do, or in what the build does with an erased node when no observer
\* removes itself, give the same dispatch: they are taken once.
OneOfAKind(id, react, ub) ==
    /\ \A o \in Observers :
           \/ react[o] = NoReaction
           \/ o \in Range(Bucket(m_observers, ObserverKey(id)))
           \/ \E q \in Observers :
                  react[q] = [ kind |-> "add", observer |-> o ]
    /\ \/ ub = "terminate"
       \/ \E o \in Observers : react[o] = [ kind |-> "remove", observer |-> o ]

\* the ids of the events that are dispatched, and that observers are
\* registered for: "Foo" and "Bar"
DispatchedIds == { <<70, 111, 111>>, <<66, 97, 114>> }

DispatchNext ==
    \/ \E id \in DispatchedIds, o \in Observers : ERunning /\ EAddObserver(id, o)
    \/ \E id \in DispatchedIds, react \in ReactionsOf, ub \in DanglingOutcomes :
           OneOfAKind(id, react, ub) /\ ENotifyReacting(id, react, ub)
    \/ ERunning /\ ERemoveAll

EvInit ==
    /\ m_observers = << >>
    /\ added = << >>
    /\ eLast = NoECall

EventNext ==
    \/ \E id \in Names, o \in Observers : EAddObserver(id, o)
    \/ \E o \in Observers : ERemoveObserver(o)
    \/ \E id \in Names : ENotify(id)
    \/ ERemoveAll

\* ------------------------------------------------------- ResourceManager
\* The manager's heap as one value: cache is m_resources, objs the
\* instances, loads the Load calls made so far in the running request, made
\* the instances it constructed, over whether the heap overflowed, disp the
\* instances taken out of the cache.
RmState == [ cache |-> m_resources, objs |-> resObjs, loads |-> << >>,
             made |-> 0, over |-> FALSE, disp |-> displaced ]

Min(S) == CHOOSE x \in S : \A y \in S : x <= y

\* the address of the next instance
NewRes(s) ==
    LET free == (1..MaxRes) \ DOMAIN s.objs
    IN  IF free = {} THEN MaxRes + 1 ELSE Min(free)

\* std::string key = toLower(id);
CacheKeyRaw(id) == id

CacheKey(id) == toLower(id)

\* std::make_shared<T>()
MakeShared(s, T, id) ==
    [ s EXCEPT !.made = @ + 1,
               !.over = @ \/ NewRes(s) > MaxRes,
               !.objs = (NewRes(s) :> [ type |-> T, refs |-> {},
                                        key |-> toLower(id) ]) @@ @ ]

\* m_resources[key] = resource;
CacheStoreByName(s, key, r) ==
    [ s EXCEPT !.cache = (toLower(s.loads[Len(s.loads)].arg) :> r) @@ @ ]

CacheStore(s, key, r) ==
    [ s EXCEPT !.cache = (key :> r) @@ @,
               !.disp = IF key \in DOMAIN s.cache /\ s.cache[key] # r
                        THEN @ \cup { s.cache[key] } ELSE @ ]

\* The requests of Material::Load, in order: the class and the name of each
\* Resources().Get<...>(...) it makes for a document.
MaterialRefs(doc) ==
    << <<"Program", doc.program>>, <<"Texture", doc.baseMap>> >>
    \o (IF doc.specularMap # Empty THEN << <<"Texture", doc.specularMap>> >> ELSE << >>)
    \o (IF doc.emissiveMap # Empty THEN << <<"Texture", doc.emissiveMap>> >> ELSE << >>)
    \o (IF doc.normalMap # Empty THEN << <<"Texture", doc.normalMap>> >> ELSE << >>)
    \o (IF doc.cubeMap # Empty THEN << <<"CubeMap", doc.cubeMap>> >> ELSE << >>)

RECURSIVE GetWithID(_, _, _, _, _)
RECURSIVE Get(_, _, _, _)
RECURSIVE MaterialGets(_, _, _, _)
RECURSIVE Load(_, _, _, _, _)

\* Material::Load after its document was read: one Get per reference; the
\* handle returned is kept in a field of the material r.
MaterialGets(s, r, refs, sub) ==
    IF refs = << >> THEN s
    ELSE LET g == Get(s, refs[1][1], refs[1][2],
                      [ok |-> sub, doc |-> NoDoc, sub |-> FALSE])
             s1 == IF g.ret = NULL THEN g.s
                   ELSE [ g.s EXCEPT !.objs[r].refs = @ \cup { g.ret } ]
         IN  MaterialGets(s1, r, Tail(refs), sub)

\* resource->Load(name, args...): the call is logged, and a Material
\* requests what its document refers to.
Load(s, r, T, name, out) ==
    LET s1 == [ s EXCEPT !.loads = Append(@, [ obj |-> r, type |-> T,
                                               arg |-> name, ok |-> out.ok ]) ]
    IN  IF ~out.ok THEN [ s |-> s1, ok |-> FALSE ]
        ELSE IF T = "Material"
             THEN [ s |-> MaterialGets(s1, r, MaterialRefs(out.doc), out.sub),
                    ok |-> TRUE ]
             ELSE [ s |-> s1, ok |-> TRUE ]

\* if (resource->Load(name, args...) == false)
LoadFailedNever(l) == FALSE

LoadFailed(l) == l.ok = FALSE

\* auto iter = m_resources.find(key); iter != m_resources.end()
CacheFindNever(s, key) == FALSE

CacheFind(s, key) == key \in DOMAIN s.cache

\* std::dynamic_pointer_cast<T>(base)
StaticPointerCast(s, base, T) == base

DynamicPointerCast(s, base, T) ==
    IF ResIsA(s.objs[base].type, T) THEN base ELSE NULL

GetWithID(s, T, id, name, out) ==
    LET key == CacheKey(id)
    IN  IF CacheFind(s, key)
        THEN LET base == s.cache[key]
                 resource == DynamicPointerCast(s, base, T)
             IN  IF resource = NULL
                 THEN [ s |-> s, ret |-> NULL ]
                 ELSE [ s |-> s, ret |-> resource ]
        ELSE LET r == NewRes(s)
                 l == Load(MakeShared(s, T, id), r, T, name, out)
             IN  IF LoadFailed(l)
                 THEN [ s |-> l.s, ret |-> NULL ]
                 ELSE [ s |-> CacheStore(l.s, key, r), ret |-> r ]

Get(s, T, name, out) == GetWithID(s, T, name, name, out)

\* The instances some handle still reaches: the cache's, the callers', and
\* the ones a reachable Material holds in its fields.
Reachable(cache, objs, held) ==
    LET roots == (Range(cache) \cup held) \cap DOMAIN objs
    IN  roots \cup UNION { objs[r].refs : r \in roots }

\* shared_ptr destroys an instance when its last handle goes
Reap(cache, objs, held) ==
    [ r \in Reachable(cache, objs, held) |-> objs[r] ]

\* what a call leaves for the claims to look at: its arguments, its result,
\* the Load calls it made (nested ones included), the number of instances it
\* constructed, and the handles Get had returned for the same class and key
CallRecord(op, T, id, name, g) ==
    [ op |-> op, T |-> T, id |-> id, name |-> name, ret |-> g.ret,
      loads |-> g.s.loads, made |-> g.s.made,
      before |-> { [ name |-> h.name, ret |-> h.ret ] :
                   h \in { x \in given : x.T = T /\ x.key = toLower(id) } },
      tick |-> 1 - rmLast.tick ]

NoCall == [ op |-> "none", T |-> "none", id |-> Empty, name |-> Empty,
            ret |-> NULL, loads |-> << >>, made |-> 0, before |-> {},
            tick |-> 0 ]

\* the Load of the requested resource itself ran in call c
Loaded(c) == c.loads # << >>

\* The manager and the heap after a request g whose caller then holds the
\* handles in held.
RmApply(g, held) ==
    /\ ~g.s.over
    /\ m_resources' = g.s.cache
    /\ resObjs' = Reap(g.s.cache, g.s.objs, held)
    /\ resHeld' = held
    /\ displaced' = g.s.disp \cap DOMAIN resObjs'
    /\ UNCHANGED << facVars, evVars >>

\* a request made by a caller that looks at the result and drops the handle
\* when the call returns
RmProbe(op, T, id, name, g) ==
    /\ RmApply(g, resHeld)
    /\ given' = IF op = "Get" /\ g.ret # NULL
                THEN given \cup { [ T |-> T, key |-> toLower(id), name |-> name,
                                    ret |-> g.ret ] }
                ELSE given
    /\ rmLast' = CallRecord(op, T, id, name, g)

\* a request made by a caller that assigns the result to its handle field,
\* as in  model = Resources().Get<Model>(modelName)  (keep), or drops it
RmKeep(g, keep) ==
    /\ RmApply(g, IF ~keep THEN resHeld
                  ELSE IF g.ret = NULL THEN {} ELSE { g.ret })
    /\ UNCHANGED << given, rmLast >>

\* Resources().Get<T>(name)
RMGet(T, name, out) ==
    \E g \in { Get(RmState, T, name, out) } : RmProbe("Get", T, name, name, g)

\* Resources().GetWithID<T>(id, name)
RMGetWithID(T, id, name, out) ==
    \E g \in { GetWithID(RmState, T, id, name, out) } :
        RmProbe("GetWithID", T, id, name, g)

\* void RemoveAll() { m_resources.clear(); }
RemoveAll ==
    /\ m_resources' = << >>
    /\ resObjs' = Reap(<< >>, resObjs, resHeld)
    /\ displaced' = (displaced \cup Range(m_resources)) \cap DOMAIN resObjs'
    /\ UNCHANGED resHeld
    /\ UNCHANGED << facVars, evVars >>

RMRemoveAll ==
    /\ RemoveAll
    /\ given' = {}
    /\ rmLast' = [ NoCall EXCEPT !.op = "RemoveAll", !.tick = 1 - rmLast.tick ]

\* the same calls, made by a caller that holds on to a handle
HeldGet(T, name, out, keep) ==
    \E g \in { Get(RmState, T, name, out) } : RmKeep(g, keep)

HeldGetWithID(T, id, name, out, keep) ==
    \E g \in { GetWithID(RmState, T, id, name, out) } : RmKeep(g, keep)

HeldRemoveAll ==
    /\ RemoveAll
    /\ UNCHANGED << given, rmLast >>

\* the caller's handle field goes away
HeldRelease(r) ==
    /\ r \in resHeld
    /\ resHeld' = resHeld \ { r }
    /\ resObjs' = Reap(m_resources, resObjs, resHeld \ { r })
    /\ displaced' = displaced \cap DOMAIN resObjs'
    /\ UNCHANGED << m_resources, given, rmLast >>
    /\ UNCHANGED << facVars, evVars >>

RmInit ==
    /\ m_resources = << >>
    /\ resObjs = << >>
    /\ resHeld = {}
    /\ displaced = {}
    /\ given = {}
    /\ rmLast = NoCall

\* the file names GetWithID is asked to load: "Bar"
LoadNames == { <<66, 97, 114>> }

RmNext ==
    \/ \E T \in ResTypes, n \in Names : \E out \in LoadOutcomes(T) :
           RMGet(T, n, out)
    \/ \E T \in ResTypes, id \in Names, n \in LoadNames : \E out \in LoadOutcomes(T) :
           RMGetWithID(T, id, n, out)
    \/ RMRemoveAll

HeldNext ==
    \/ \E T \in ResTypes, n \in Names, keep \in BOOLEAN : \E out \in LoadOutcomes(T) :
           HeldGet(T, n, out, keep)
    \/ \E T \in ResTypes, id \in Names, n \in LoadNames, keep \in BOOLEAN :
         \E out \in LoadOutcomes(T) :
           HeldGetWithID(T, id, n, out, keep)
    \/ \E r \in resHeld : HeldRelease(r)
    \/ HeldRemoveAll

\* ------------------------------------------------- Factory, Actor, Component
\* the classes registered with the Factory
FactoryTypes == { "Actor", "RotationComponent" }

\* the types a caller asks Create<T> for
CastTypes == { "Object", "Actor", "Component", "RotationComponent" }

\* class D is T or derives from T
ObjIsA(D, T) ==
    \/ D = T
    \/ T = "Object"
    \/ (T = "Component" /\ D \in { "RotationComponent", "ModelRenderer" })

\* the unique_ptr<Actor> variables of a caller
ActorVars == { "first", "second" }

\* values of RotationComponent::rotate
Rotations == { 0, 1 }

\* the document Actor::Read is given: lifespan, persistent and a list of
\* components, each with the type name handed to the Factory ("foo", "Bar")
\* and the value its Read finds
ActorDocs ==
    { [ name |-> <<70, 111, 111>>, active |-> TRUE,
        lifespan |-> 1, persistent |-> TRUE,
        components |-> << [ type |-> <<102, 111, 111>>, active |-> TRUE,
                            rotate |-> 0 ],
                          [ type |-> <<66, 97, 114>>, active |-> TRUE,
                            rotate |-> 1 ] >> ] }

\* an empty unique_ptr<Object>, and pointers to the two kinds of Object
NoObj == [ kind |-> "null", at |-> 0 ]
ActorRef(a) == [ kind |-> "Actor", at |-> a ]
ComponentRef(c) == [ kind |-> "Component", at |-> c ]

\* the Factory, the heap and the Scene's list an operation starts from
FacState == [ reg |-> m_registry, actors |-> actors, comps |-> components,
              list |-> m_actors ]

\* the dynamic type of the object o points to
TypeOf(s, o) == IF o.kind = "Actor" THEN "Actor" ELSE s.comps[o.at].type

\* where the next instance is placed: the lowest free address
NewAt(used) == Min((1..(Cardinality(used) + 1)) \ used)

\* Actor() = default; real is the lifespan left in exact arithmetic, kept
\* beside the float for comparison
MakeActor(s) ==
    LET a == NewAt(DOMAIN s.actors)
    IN  [ s |-> [ s EXCEPT !.actors = (a :> [ name |-> Empty, active |-> TRUE,
                                              lifespan |-> 0, real |-> 0,
                                              destroyed |-> FALSE,
                                              persistent |-> FALSE,
                                              scene |-> NULL,
                                              m_components |-> << >> ]) @@ @ ],
          ret |-> ActorRef(a) ]

\* Component() = default, with  active{ true },  Actor* owner{ nullptr }
\* and  rotate{ 0 }
MakeComponent(s, T) ==
    LET c == NewAt(DOMAIN s.comps)
    IN  [ s |-> [ s EXCEPT !.comps = (c :> [ type |-> T, active |-> TRUE,
                                             owner |-> NULL,
                                             rotate |-> 0 ]) @@ @ ],
          ret |-> ComponentRef(c) ]

\* the other actor's component itself, not a copy of it
CloneComponentShared(s, c) == [ s |-> s, ret |-> ComponentRef(c) ]

\* component->Clone(): make_unique<classname>(*this), every field copied
CloneComponent(s, c) ==
    LET n == NewAt(DOMAIN s.comps)
    IN  [ s |-> [ s EXCEPT !.comps = (n :> s.comps[c]) @@ @ ],
          ret |-> ComponentRef(n) ]

\* the component joins the list with the owner it came with
AddComponentKeepOwner(s, a, c) ==
    [ s EXCEPT !.actors[a].m_components = Append(@, c) ]

\* Actor::AddComponent
AddComponent(s, a, c) ==
    [ s EXCEPT !.comps[c].owner = a,
               !.actors[a].m_components = Append(@, c) ]

\* the loop of the copy constructor, from the i-th component of other on
RECURSIVE CloneComponents(_, _, _, _)
CloneComponents(s, other, a, i) ==
    IF i > Len(s.actors[other].m_components) THEN s
    ELSE LET clone == CloneComponent(s, s.actors[other].m_components[i])
         IN  CloneComponents(AddComponent(clone.s, a, clone.ret.at), other, a, i + 1)

\* every member of the source is copied, destroyed and scene as well
ActorCloneAll(s, other) ==
    LET a == NewAt(DOMAIN s.actors)
        t == [ s EXCEPT !.actors = (a :> [ s.actors[other] EXCEPT
                                               !.real = s.actors[other].lifespan,
                                               !.m_components = << >> ]) @@ @ ]
    IN  [ s |-> CloneComponents(t, other, a, 1), ret |-> ActorRef(a) ]

\* Actor::Clone(): make_unique<Actor>(*this), the copy constructor
ActorClone(s, other) ==
    LET a == NewAt(DOMAIN s.actors)
        t == [ s EXCEPT !.actors = (a :> [ name |-> s.actors[other].name,
                                           active |-> s.actors[other].active,
                                           lifespan |-> s.actors[other].lifespan,
                                           real |-> s.actors[other].lifespan,
                                           destroyed |-> FALSE,
                                           persistent |-> FALSE,
                                           scene |-> NULL,
                                           m_components |-> << >> ]) @@ @ ]
    IN  [ s |-> CloneComponents(t, other, a, 1), ret |-> ActorRef(a) ]

\* make_unique<Creator<T>>()  and  make_unique<PrototypeCreator<T>>(prototype)
Creator(T) == [ kind |-> "Creator", T |-> T, m_prototype |-> NULL ]
PrototypeCreator(T, prototype) ==
    [ kind |-> "PrototypeCreator", T |-> T, m_prototype |-> prototype ]

\* Creator<T>::Create  and  PrototypeCreator<T>::Create
CreatorCreate(s, creator) ==
    IF creator.kind = "Creator"
    THEN IF creator.T = "Actor" THEN MakeActor(s) ELSE MakeComponent(s, creator.T)
    ELSE ActorClone(s, creator.m_prototype)

\* the name as it was given
FactoryKeyRaw(name) == name

\* std::string key = toLower(name)
FactoryKey(name) == toLower(name)

\* the creator is stored only if the key is not taken yet
RegistryInsert(reg, key, creator) ==
    IF key \in DOMAIN reg THEN reg ELSE (key :> creator) @@ reg

\* m_registry[key] = ...
RegistryStore(reg, key, creator) == (key :> creator) @@ reg

\* Factory::Register<T>
Register(s, T, name) ==
    [ s EXCEPT !.reg = RegistryStore(@, FactoryKey(name), Creator(T)) ]

\* Factory::RegisterPrototype<Actor>
RegisterPrototype(s, name, prototype) ==
    [ s EXCEPT !.reg = RegistryStore(@, FactoryKey(name),
                                     PrototypeCreator("Actor", prototype)) ]

\* m_registry.end(): no creator
RegistryEnd == [ kind |-> "end", T |-> "Object", m_prototype |-> NULL ]

\* some creator of the registry when none has the key
RegistryFindAny(reg, key) ==
    IF key \in DOMAIN reg THEN reg[key]
    ELSE IF DOMAIN reg = {} THEN RegistryEnd
    ELSE reg[CHOOSE k \in DOMAIN reg : TRUE]

\* m_registry.find(key)
RegistryFind(reg, key) == IF key \in DOMAIN reg THEN reg[key] ELSE RegistryEnd

\* dynamic_cast<T*>(object.get())
DynamicCast(s, object, T) == IF ObjIsA(TypeOf(s, object), T) THEN object ELSE NoObj

\* the Actors and Components some owner still holds: the caller's Actors
\* (held), the prototypes of the registry, the Components in their lists
FacReap(s, held) ==
    LET protos == { s.reg[k].m_prototype : k \in DOMAIN s.reg } \ { NULL }
        alive  == (held \cup protos) \cap DOMAIN s.actors
        owned  == UNION { Range(s.actors[a].m_components) : a \in alive }
    IN  [ s EXCEPT !.actors = [ a \in alive |-> s.actors[a] ],
                   !.comps = [ c \in owned \cap DOMAIN s.comps |-> s.comps[c] ] ]

\* what an object looks like from outside: its class and its fields, the
\* components of an Actor in the order of its list
Describe(s, o) ==
    IF o.kind = "Actor"
    THEN [ type |-> "Actor", lifespan |-> s.actors[o.at].lifespan,
           persistent |-> s.actors[o.at].persistent, rotate |-> 0,
           components |-> [ i \in 1..Len(s.actors[o.at].m_components) |->
               [ type |-> s.comps[s.actors[o.at].m_components[i]].type,
                 rotate |-> s.comps[s.actors[o.at].m_components[i]].rotate ] ] ]
    ELSE [ type |-> s.comps[o.at].type, lifespan |-> 0, persistent |-> FALSE,
           rotate |-> s.comps[o.at].rotate, components |-> << >> ]

NoValue ==
    [ type |-> "null", lifespan |-> 0, persistent |-> FALSE, rotate |-> 0,
      components |-> << >> ]

\* Factory::Create<T>: made is the object the creator produced, ret the
\* pointer handed to the caller; an object that is not a T dies on return
Create(s, T, name) ==
    LET key == FactoryKey(name)
        it  == RegistryFind(s.reg, key)
    IN  IF it # RegistryEnd
        THEN LET object  == CreatorCreate(s, it)
                 derived == DynamicCast(object.s, object.ret, T)
             IN  IF derived = NoObj
                 THEN [ s |-> FacReap(object.s, DOMAIN s.actors), ret |-> NoObj,
                        made |-> Describe(object.s, object.ret) ]
                 ELSE [ s |-> object.s, ret |-> derived,
                        made |-> Describe(object.s, object.ret) ]
        ELSE [ s |-> s, ret |-> NoObj, made |-> NoValue ]

\* component->Read(componentValue): RotationComponent::Read reads rotate;
\* ModelRenderer::Read reads active with Object::Read, and a document that
\* names no model and no material leaves both handles empty and the
\* ResourceManager as it was
ComponentRead(s, c, value) ==
    IF s.comps[c].type = "RotationComponent"
    THEN [ s EXCEPT !.comps[c].rotate = value.rotate ]
    ELSE [ s EXCEPT !.comps[c].active = value.active ]

\* the type of an entry of a components list that has no "type" member
NoType == << 0 >>

RECURSIVE ReadComponents(_, _, _, _)
RECURSIVE ReadComponentsUntilFailure(_, _, _, _)

\* the loop ends at the first entry that cannot be made
ReadComponentsUntilFailure(s, a, list, i) ==
    IF i > Len(list) \/ list[i].type = NoType THEN s
    ELSE LET g == Create(s, "Component", list[i].type)
         IN  IF g.ret = NoObj THEN g.s
             ELSE ReadComponentsUntilFailure(
                      AddComponent(ComponentRead(g.s, g.ret.at, list[i]),
                                   a, g.ret.at),
                      a, list, i + 1)

\* the loop of Actor::Read over the components of the document
ReadComponents(s, a, list, i) ==
    IF i > Len(list) THEN s
    ELSE IF list[i].type = NoType THEN ReadComponents(s, a, list, i + 1)
    ELSE LET g == Create(s, "Component", list[i].type)
         IN  IF g.ret = NoObj
             THEN ReadComponents(g.s, a, list, i + 1)
             ELSE ReadComponents(
                      AddComponent(ComponentRead(g.s, g.ret.at, list[i]),
                                   a, g.ret.at),
                      a, list, i + 1)

\* Actor::Read, with Object::Read
ActorRead(s, a, doc) ==
    ReadComponents([ s EXCEPT !.actors[a].name = doc.name,
                              !.actors[a].active = doc.active,
                              !.actors[a].lifespan = doc.lifespan,
                              !.actors[a].real = doc.lifespan,
                              !.actors[a].persistent = doc.persistent ],
                   a, doc.components, 1)

\* what a caller sees of one Create call: the object the creator made and
\* the object the caller got
FCallRecord(op, T, name, g) ==
    [ op |-> op, T |-> T, name |-> name,
      ret |-> IF g.ret = NoObj THEN NoValue ELSE Describe(g.s, g.ret),
      made |-> g.made, tick |-> 1 - fLast.tick ]

NoFCall ==
    [ op |-> "none", T |-> "Object", name |-> Empty, ret |-> NoValue,
      made |-> NoValue, tick |-> 0 ]

\* the log after registration e: what was registered before under the very
\* name of e, spelled as in e, is of no interest any more
Logged(e) ==
    LET IsOther(x) == x.name # e.name
    IN  Append(SelectSeq(regLog, IsOther), e)

\* a call other than Create was made
FacOther(op) == fLast' = [ NoFCall EXCEPT !.op = op, !.tick = 1 - fLast.tick ]

\* the Actors the caller's variables own
Owned(held) == Range(held) \ { NULL }

\* the names a key of the registry can be, and the caller's variables, in the
\* order in which the owners of objects are visited
KeyOrder ==
    << <<70, 111, 111>>, <<102, 111, 111>>, <<66, 97, 114>>, <<98, 97, 114>>,
       <<97, 99, 116, 111, 114>> >>

ActorVarOrder == << "first", "second" >>

\* the sequence q without the repetitions in it
RECURSIVE Uniq(_)
Uniq(q) ==
    IF q = << >> THEN << >>
    ELSE LET r == Uniq(SubSeq(q, 1, Len(q) - 1))
         IN  IF q[Len(q)] \in Range(r) THEN r ELSE Append(r, q[Len(q)])

\* where x is in q
IndexOf(q, x) == CHOOSE i \in 1..Len(q) : q[i] = x

\* the component lists of the Actors in order, from the i-th on, end to end
RECURSIVE AllComponents(_, _, _)
AllComponents(s, order, i) ==
    IF i > Len(order) THEN << >>
    ELSE s.actors[order[i]].m_components \o AllComponents(s, order, i + 1)

\* the owner of a Component that points at an Actor that is gone
Dangling == -1

\* Addresses are only ever compared.  When an operation ends, what nobody
\* owns is gone and the objects left are moved to the addresses 1, 2, ... in
\* the order in which their owners are visited: the prototypes of the
\* registry, then the caller's variables, then the Scene's list; moved tells
\* where each object of the state before went.
Compact(s, held) ==
    LET r == FacReap(s, Owned(held) \cup Range(s.list))
        HasProto(k) == k \in DOMAIN r.reg /\ r.reg[k].m_prototype # NULL
        IsSet(v) == held[v] # NULL
        keys == SelectSeq(KeyOrder, HasProto)
        set == SelectSeq(ActorVarOrder, IsSet)
        order == Uniq([ i \in 1..Len(keys) |-> r.reg[keys[i]].m_prototype ]
                      \o [ i \in 1..Len(set) |-> held[set[i]] ]
                      \o s.list)
        corder == Uniq(AllComponents(r, order, 1))
        ToActor(a) == IF a = NULL THEN NULL
                      ELSE IF a \in Range(order) THEN IndexOf(order, a)
                      ELSE Dangling
    IN  [ s |-> [ reg |-> [ k \in DOMAIN r.reg |->
                      [ r.reg[k] EXCEPT !.m_prototype = ToActor(@) ] ],
                  actors |-> [ n \in 1..Len(order) |->
                      [ r.actors[order[n]] EXCEPT !.m_components =
                          [ i \in 1..Len(r.actors[order[n]].m_components) |->
                              IndexOf(corder, r.actors[order[n]].m_components[i]) ] ] ],
                  comps |-> [ n \in 1..Len(corder) |->
                      [ r.comps[corder[n]] EXCEPT !.owner = ToActor(@) ] ],
                  list |-> [ i \in 1..Len(s.list) |-> ToActor(s.list[i]) ] ],
          held |-> [ v \in DOMAIN held |-> ToActor(held[v]) ],
          moved |-> [ actors |-> [ a \in Range(order) \cap DOMAIN actors |->
                                      IndexOf(order, a) ],
                      comps |-> [ c \in Range(corder) \cap DOMAIN components |->
                                     IndexOf(corder, c) ] ] ]

\* an operation ends
HeapApply(s, held) ==
    \E c \in { Compact(s, held) } :
        /\ m_registry' = c.s.reg
        /\ actors' = c.s.actors
        /\ components' = c.s.comps
        /\ m_actors' = c.s.list
        /\ heldActors' = c.held
        /\ moved' = c.moved
        /\ UNCHANGED << rmVars, evVars >>

\* an operation of the Factory or of a caller of it ends
FacApply(s, held) == HeapApply(s, held) /\ UNCHANGED sLast

\* a caller makes an Actor and reads it from a document, as Scene::Read does
\* with the Actor that Create<Actor>("Actor") default-constructs
NewActor(s, doc) ==
    LET actor == MakeActor(s)
    IN  [ s |-> ActorRead(actor.s, actor.ret.at, doc), ret |-> actor.ret ]

\* Factory::Instance().Register<T>(name)
FRegister(T, name) ==
    /\ FacApply(Register(FacState, T, name), heldActors)
    /\ regLog' = Logged([ op |-> "Register", T |-> T, name |-> name,
                          value |-> NoValue ])
    /\ FacOther("Register")

\* Factory::Instance().RegisterPrototype<Actor>(name, std::move(actor))
FRegisterPrototype(name, doc) ==
    \E actor \in { NewActor(FacState, doc) } :
        /\ FacApply(RegisterPrototype(actor.s, name, actor.ret.at), heldActors)
        /\ regLog' = Logged([ op |-> "RegisterPrototype", T |-> "Actor",
                              name |-> name,
                              value |-> Describe(actor.s, actor.ret) ])
        /\ FacOther("RegisterPrototype")

\* Factory::Instance().Create<T>(name); the caller lets the object go
FCreate(T, name) ==
    \E g \in { Create(FacState, T, name) } :
        /\ FacApply(g.s, heldActors)
        /\ fLast' = FCallRecord("Create", T, name, g)
        /\ UNCHANGED regLog

\* Factory::RemoveAll
FRemoveAll ==
    /\ FacApply([ FacState EXCEPT !.reg = << >> ], heldActors)
    /\ regLog' = << >>
    /\ FacOther("RemoveAll")

\* the same calls, made by a caller that owns the Actors it creates
OwnRegister(T, name) ==
    /\ FacApply(Register(FacState, T, name), heldActors)
    /\ UNCHANGED << regLog, fLast >>

OwnRegisterPrototype(name, doc) ==
    \E actor \in { NewActor(FacState, doc) } :
        /\ FacApply(RegisterPrototype(actor.s, name, actor.ret.at), heldActors)
        /\ UNCHANGED << regLog, fLast >>

\* actor = Factory::Instance().Create<Actor>(name), actor being variable v
OwnCreate(v, name) ==
    \E g \in { Create(FacState, "Actor", name) } :
        /\ FacApply(g.s, [ heldActors EXCEPT
                               ![v] = IF g.ret = NoObj THEN NULL ELSE g.ret.at ])
        /\ UNCHANGED << regLog, fLast >>

OwnRemoveAll ==
    /\ FacApply([ FacState EXCEPT !.reg = << >> ], heldActors)
    /\ UNCHANGED << regLog, fLast >>

\* RotationComponent::UpdateGUI: the editor drags the field to another value
SetRotate(c, v) ==
    /\ c \in DOMAIN components
    /\ components[c].owner \in Owned(heldActors)
    /\ components[c].rotate # v
    /\ FacApply([ FacState EXCEPT !.comps[c].rotate = v ], heldActors)
    /\ UNCHANGED << regLog, fLast >>

\* actor.reset(), actor being variable v
OwnDestroy(v) ==
    /\ heldActors[v] # NULL
    /\ FacApply(FacState, [ heldActors EXCEPT ![v] = NULL ])
    /\ UNCHANGED << regLog, fLast >>

\* no call of the Scene was made yet
NoSCall ==
    [ op |-> "none", dt |-> 0, force |-> FALSE,
      doc |-> [ prototypes |-> << >>, actors |-> << >> ], order |-> "none",
      trace |-> << >>, tick |-> 0, name |-> << >>, ret |-> 0,
      rets |-> << >> ]

FacInit ==
    /\ m_registry = << >>
    /\ actors = << >>
    /\ components = << >>
    /\ heldActors = [ v \in ActorVars |-> NULL ]
    /\ moved = [ actors |-> << >>, comps |-> << >> ]
    /\ regLog = << >>
    /\ fLast = NoFCall
    /\ m_actors = << >>
    /\ sLast = NoSCall

FacNext ==
    \/ \E T \in FactoryTypes, n \in Names : FRegister(T, n)
    \/ \E n \in Names, doc \in ActorDocs : FRegisterPrototype(n, doc)
    \/ \E T \in CastTypes, n \in Names : FCreate(T, n)
    \/ FRemoveAll

OwnNext ==
    \/ \E T \in FactoryTypes, n \in Names : OwnRegister(T, n)
    \/ \E n \in Names, doc \in ActorDocs : OwnRegisterPrototype(n, doc)
    \/ \E v \in ActorVars, n \in Names : OwnCreate(v, n)
    \/ \E c \in DOMAIN components, v \in Rotations : SetRotate(c, v)
    \/ \E v \in ActorVars : OwnDestroy(v)
    \/ OwnRemoveAll

\* ------------------------------------------------------------------- Scene
\* A float is written as the whole number of units of 2^-27 it holds: 0.5f is
\* Half, and the floats nearest to 0.1 and to 0.6 are Tenth and SixTenths.
\* Every float between 2^-27 and 2 in size is such a number, and so is
\* every sum or difference of two of them before it is rounded.
FloatBits == 24

Half == 67108864

Tenth == 13421773

SixTenths == 80530640

\* the number of binary digits of n
RECURSIVE Width(_)
Width(n) == IF n = 0 THEN 0 ELSE 1 + Width(n \div 2)

RECURSIVE Pow2(_)
Pow2(n) == IF n = 0 THEN 1 ELSE 2 * Pow2(n - 1)

\* x as a float: FloatBits significant digits, the nearest, ties to even
FloatRound(x) ==
    LET m == IF x < 0 THEN 0 - x ELSE x
        w == Width(m)
        ulp == IF w > FloatBits THEN Pow2(w - FloatBits) ELSE 1
        q == m \div ulp
        r == m % ulp
        up == 2 * r > ulp \/ (2 * r = ulp /\ q % 2 = 1)
        v == (IF up THEN q + 1 ELSE q) * ulp
    IN  IF x < 0 THEN 0 - v ELSE v

\* lifespan -= dt
FloatSub(a, b) == FloatRound(a - b)

\* the delta times of a frame
FrameTimes == { Half }

\* the delta times an Actor is updated with
DeltaTimes == { Tenth, Half }

\* the one Scene of the Engine
ThisScene == 1

\* ModelRenderer : public RendererComponent
IsRenderer(T) == T = "ModelRenderer"

\* One call made while an operation runs: ev names the method, actor the
\* Actor by its place in the list when the operation began, comp the
\* Component by its place in the Actor's list (0: the Actor itself),
\* destroyed the Actor's flag when the call returns, list the Actors that
\* are in the Scene's list at that moment.
Ev(ev, i, c, s, a, linked) ==
    [ ev |-> ev, actor |-> i, comp |-> c, destroyed |-> s.actors[a].destroyed,
      list |-> linked ]

\* the active flag of a Component is not looked at
ComponentPlacesAll(s, a, renderers) ==
    LET cs == s.actors[a].m_components
    IN  SelectSeq([ j \in 1..Len(cs) |-> j ],
                  LAMBDA j : renderers => IsRenderer(s.comps[cs[j]].type))

\* the places in the component list of a of the Components that are active
\* and, where only renderers count, are RendererComponents
ComponentPlaces(s, a, renderers) ==
    LET cs == s.actors[a].m_components
    IN  SelectSeq([ j \in 1..Len(cs) |-> j ],
                  LAMBDA j : /\ s.comps[cs[j]].active
                             /\ (renderers => IsRenderer(s.comps[cs[j]].type)))

\* a call of method ev on the Components of a at the places in idx
ComponentCalls(ev, s, a, i, linked, idx) ==
    [ n \in 1..Len(idx) |-> Ev(ev, i, idx[n], s, a, linked) ]

\* destroyed is left as it is when the lifespan runs out
ExpireNever(s, a) == s

\* destroyed = true
Expire(s, a) == [ s EXCEPT !.actors[a].destroyed = TRUE ]

\* the test is left out: every Actor is treated as alive
IsDestroyedNever(s, a) == FALSE

\* if (destroyed) return;
IsDestroyed(s, a) == s.actors[a].destroyed

\* every lifespan counts down
HasLifespanAlways(s, a) == TRUE

\* if (lifespan > 0)
HasLifespan(s, a) == s.actors[a].lifespan > 0

\* Actor::Update
ActorUpdate(s, a, i, linked, dt) ==
    IF IsDestroyed(s, a) THEN [ s |-> s, trace |-> << >> ]
    ELSE LET t == IF HasLifespan(s, a)
                  THEN [ s EXCEPT !.actors[a].lifespan = FloatSub(@, dt),
                                  !.actors[a].real = @ - dt ]
                  ELSE s
         IN  IF HasLifespan(s, a) /\ t.actors[a].lifespan <= 0
             THEN [ s |-> Expire(t, a), trace |-> << >> ]
             ELSE [ s |-> t,
                    trace |-> ComponentCalls("Component::Update", t, a, i, linked,
                                             ComponentPlaces(t, a, FALSE)) ]

\* Actor::Draw
ActorDraw(s, a, i, linked) ==
    IF IsDestroyed(s, a) THEN << >>
    ELSE ComponentCalls("Component::Draw", s, a, i, linked,
                        ComponentPlaces(s, a, TRUE))

\* Actor::Destroyed
ActorDestroyed(s, a, i, linked) ==
    ComponentCalls("Component::Destroyed", s, a, i, linked,
                   [ j \in 1..Len(s.actors[a].m_components) |-> j ])

\* the loop ends behind the first Component whose Start() returned false
StartComponentsUntilFalse(s, a, i, linked, rets) ==
    ComponentCalls("Component::Start", s, a, i, linked,
                   SelectSeq([ j \in 1..Len(s.actors[a].m_components) |-> j ],
                             LAMBDA j : \A k \in 1..(j - 1) : rets[k]))

\* the loop of Actor::Start: component->Start() on each Component; rets are
\* the values the calls return, which the loop does not look at
StartComponents(s, a, i, linked, rets) ==
    ComponentCalls("Component::Start", s, a, i, linked,
                   [ j \in 1..Len(s.actors[a].m_components) |-> j ])

\* Actor::Start, with Components whose Start() returns true
ActorStart(s, a, i, linked) ==
    StartComponents(s, a, i, linked,
                    [ j \in 1..Len(s.actors[a].m_components) |-> TRUE ])

\* the places 1..n of a list
Places(n) == [ i \in 1..n |-> i ]

\* sequence q without the element x
Without(q, x) == SelectSeq(q, LAMBDA y : y # x)

RECURSIVE UpdatePhase(_, _, _, _)
RECURSIVE UpdatePhaseEager(_, _, _, _)

\* an Actor that Update has destroyed gets its Destroyed() at once
UpdatePhaseEager(s, i, dt, trace) ==
    IF i > Len(s.list) THEN [ s |-> s, trace |-> trace ]
    ELSE LET a == s.list[i]
             linked == Places(Len(s.list))
         IN  IF s.actors[a].active
             THEN LET u == ActorUpdate(s, a, i, linked, dt)
                      t == trace \o u.trace
                                 \o << Ev("Actor::Update", i, 0, u.s, a, linked) >>
                  IN  UpdatePhaseEager(u.s, i + 1, dt,
                          IF u.s.actors[a].destroyed
                          THEN t \o ActorDestroyed(u.s, a, i, linked)
                                 \o << Ev("Actor::Destroyed", i, 0, u.s, a, linked) >>
                          ELSE t)
             ELSE UpdatePhaseEager(s, i + 1, dt, trace)

\* phase 1 of Scene::Update, from the i-th Actor on
UpdatePhase(s, i, dt, trace) ==
    IF i > Len(s.list) THEN [ s |-> s, trace |-> trace ]
    ELSE LET a == s.list[i]
             linked == Places(Len(s.list))
         IN  IF s.actors[a].active
             THEN LET u == ActorUpdate(s, a, i, linked, dt)
                  IN  UpdatePhase(u.s, i + 1, dt,
                          trace \o u.trace
                                \o << Ev("Actor::Update", i, 0, u.s, a, linked) >>)
             ELSE UpdatePhase(s, i + 1, dt, trace)

\* The order in which std::erase_if takes the elements of a std::list out
\* of it is the standard library's: "node" takes each element out as soon as
\* the predicate has accepted it, "range" takes a run of accepted neighbours
\* out when the run ends.
EraseIfOrders == { "node", "range" }

\* the elements in pending leave the list
RECURSIVE Unlink(_, _, _, _)
Unlink(s, linked, pending, trace) ==
    IF pending = << >> THEN [ linked |-> linked, trace |-> trace ]
    ELSE LET left == Without(linked, Head(pending))
         IN  Unlink(s, left, Tail(pending),
                    Append(trace, Ev("erase", Head(pending), 0, s,
                                     s.list[Head(pending)], left)))

\* no Actor is reaped, destroyed or not
ReapTestNever(s, a) == FALSE

\* an Actor that is not active is not reaped
ReapTestActive(s, a) == s.actors[a].destroyed /\ s.actors[a].active

\* if (actor->destroyed), the predicate of phase 2
ReapTest(s, a) == s.actors[a].destroyed

RECURSIVE ReapPhase(_, _, _, _, _, _)
RECURSIVE ReapPhaseEraseFirst(_, _, _, _, _, _)

\* a destroyed Actor is taken out of the list, and then its Destroyed() runs
ReapPhaseEraseFirst(s, i, linked, pending, order, trace) ==
    IF i > Len(s.list) THEN [ linked |-> linked, trace |-> trace ]
    ELSE LET a == s.list[i]
         IN  IF ReapTest(s, a)
             THEN LET u == Unlink(s, linked, << i >>, trace)
                  IN  ReapPhaseEraseFirst(s, i + 1, u.linked, << >>, order,
                          u.trace \o ActorDestroyed(s, a, i, u.linked)
                                  \o << Ev("Actor::Destroyed", i, 0, s, a, u.linked) >>)
             ELSE ReapPhaseEraseFirst(s, i + 1, linked, << >>, order, trace)

\* phase 2 of Scene::Update, from the i-th Actor on: linked are the Actors
\* in the list, pending those accepted and not taken out yet
ReapPhase(s, i, linked, pending, order, trace) ==
    IF i > Len(s.list) THEN Unlink(s, linked, pending, trace)
    ELSE LET a == s.list[i]
         IN  IF ReapTest(s, a)
             THEN LET t == trace \o ActorDestroyed(s, a, i, linked)
                                 \o << Ev("Actor::Destroyed", i, 0, s, a, linked) >>
                  IN  IF order = "node"
                      THEN LET u == Unlink(s, linked, << i >>, t)
                           IN  ReapPhase(s, i + 1, u.linked, << >>, order, u.trace)
                      ELSE ReapPhase(s, i + 1, linked, Append(pending, i), order, t)
             ELSE LET u == Unlink(s, linked, pending, trace)
                  IN  ReapPhase(s, i + 1, u.linked, << >>, order, u.trace)

\* the Actors that stay are put in the list back to front
RelinkReversed(s, linked) ==
    [ s EXCEPT !.list = [ k \in 1..Len(linked) |->
                              s.list[linked[Len(linked) + 1 - k]] ] ]

\* the list that holds the Actors at the places in linked
Relink(s, linked) ==
    [ s EXCEPT !.list = [ k \in 1..Len(linked) |-> s.list[linked[k]] ] ]

\* Scene::Update
SceneUpdate(s, dt, order) ==
    LET p == UpdatePhase(s, 1, dt, << >>)
        r == ReapPhase(p.s, 1, Places(Len(s.list)), << >>, order, p.trace)
    IN  [ s |-> Relink(p.s, r.linked), trace |-> r.trace ]

\* Scene::Draw, from the i-th Actor on
RECURSIVE SceneDraw(_, _)
SceneDraw(s, i) ==
    IF i > Len(s.list) THEN << >>
    ELSE LET a == s.list[i]
             linked == Places(Len(s.list))
         IN  IF s.actors[a].active
             THEN ActorDraw(s, a, i, linked)
                      \o << Ev("Actor::Draw", i, 0, s, a, linked) >>
                      \o SceneDraw(s, i + 1)
             ELSE SceneDraw(s, i + 1)

\* the back-reference is left as it is
SetSceneNever(s, a) == s

\* actor->scene = this
SetScene(s, a) == [ s EXCEPT !.actors[a].scene = ThisScene ]

\* the Actor is started whatever the flag is
AddActorStarted(s, a, start) ==
    LET t == SetScene(s, a)
        i == Len(s.list) + 1
        linked == Places(Len(s.list))
    IN  [ s |-> [ t EXCEPT !.list = Append(@, a) ],
          trace |-> ActorStart(t, a, i, linked)
                        \o << Ev("Actor::Start", i, 0, t, a, linked) >> ]

\* Scene::AddActor
AddActor(s, a, start) ==
    LET t == SetScene(s, a)
        i == Len(s.list) + 1
        linked == Places(Len(s.list))
    IN  [ s |-> [ t EXCEPT !.list = Append(@, a) ],
          trace |-> IF start
                    THEN ActorStart(t, a, i, linked)
                             \o << Ev("Actor::Start", i, 0, t, a, linked) >>
                    ELSE << >> ]

\* persistent Actors go as well
RemoveTestAll(s, a, force) == TRUE

\* if (!(*iter)->persistent || force)
RemoveTest(s, a, force) == ~s.actors[a].persistent \/ force

\* the loop of Scene::RemoveAllActors, from the i-th Actor on
RECURSIVE RemoveLoop(_, _, _, _, _)
RemoveLoop(s, i, force, linked, trace) ==
    IF i > Len(s.list) THEN [ linked |-> linked, trace |-> trace ]
    ELSE LET a == s.list[i]
         IN  IF RemoveTest(s, a, force)
             THEN LET u == Unlink(s, linked, << i >>,
                                  trace \o ActorDestroyed(s, a, i, linked)
                                        \o << Ev("Actor::Destroyed", i, 0, s, a, linked) >>)
                  IN  RemoveLoop(s, i + 1, force, u.linked, u.trace)
             ELSE RemoveLoop(s, i + 1, force, linked, trace)

\* Scene::RemoveAllActors
RemoveAllActors(s, force) ==
    LET r == RemoveLoop(s, 1, force, Places(Len(s.list)), << >>)
    IN  [ s |-> Relink(s, r.linked), trace |-> r.trace ]

\* the loop of Scene::Destroyed, from the i-th Actor on
RECURSIVE DestroyedLoop(_, _)
DestroyedLoop(s, i) ==
    IF i > Len(s.list) THEN << >>
    ELSE ActorDestroyed(s, s.list[i], i, Places(Len(s.list)))
             \o << Ev("Actor::Destroyed", i, 0, s, s.list[i], Places(Len(s.list))) >>
             \o DestroyedLoop(s, i + 1)

\* the loop alone: the Actors stay in the list
SceneDestroyedKeep(s) == [ s |-> s, trace |-> DestroyedLoop(s, 1) ]

\* Scene::Destroyed: the loop, then m_actors.clear()
SceneDestroyed(s) ==
    LET n == Len(s.list)
    IN  [ s |-> Relink(s, << >>),
          trace |-> DestroyedLoop(s, 1)
                        \o [ i \in 1..n |-> Ev("erase", i, 0, s, s.list[i], << >>) ] ]

\* "Actor", "RotationComponent", "ModelRenderer"
ActorName == << 65, 99, 116, 111, 114 >>

RotationComponentName ==
    << 82, 111, 116, 97, 116, 105, 111, 110, 67, 111, 109, 112, 111, 110, 101,
       110, 116 >>

ModelRendererName ==
    << 77, 111, 100, 101, 108, 82, 101, 110, 100, 101, 114, 101, 114 >>

\* The Actors a Scene document describes: one that lives for 0.6 seconds, with
\* a RotationComponent and a ModelRenderer; one that is inactive and
\* persistent, its lifespan below zero; one that is persistent with lifespan
\* zero, its ModelRenderer inactive.
MortalDoc ==
    [ name |-> <<70, 111, 111>>, active |-> TRUE, lifespan |-> SixTenths,
      persistent |-> FALSE,
      components |-> << [ type |-> RotationComponentName, active |-> TRUE,
                          rotate |-> 1 ],
                        [ type |-> ModelRendererName, active |-> TRUE,
                          rotate |-> 0 ] >> ]

IdleDoc ==
    [ name |-> <<102, 111, 111>>, active |-> FALSE, lifespan |-> 0 - Tenth,
      persistent |-> TRUE, components |-> << >> ]

KeptDoc ==
    [ name |-> <<66, 97, 114>>, active |-> TRUE, lifespan |-> 0,
      persistent |-> TRUE,
      components |-> << [ type |-> ModelRendererName, active |-> FALSE,
                          rotate |-> 0 ] >> ]

\* an Actor that is inactive and lives for 0.6 seconds, with a
\* RotationComponent
SleeperDoc ==
    [ name |-> <<66, 97, 114>>, active |-> FALSE, lifespan |-> SixTenths,
      persistent |-> FALSE,
      components |-> << [ type |-> RotationComponentName, active |-> TRUE,
                          rotate |-> 1 ] >> ]

\* documents with one Actor: an inactive one, an active one
IdleDocs ==
    { [ prototypes |-> << >>, actors |-> << SleeperDoc >> ],
      [ prototypes |-> << >>, actors |-> << MortalDoc >> ] }

\* the documents Scene::Read is given: the prototypes and the actors
SceneDocs ==
    { [ prototypes |-> << MortalDoc, IdleDoc >>, actors |-> << KeptDoc, MortalDoc >> ],
      [ prototypes |-> << KeptDoc >>, actors |-> << IdleDoc >> ],
      [ prototypes |-> << >>, actors |-> << MortalDoc >> ] }

NoSceneDoc == [ prototypes |-> << >>, actors |-> << >> ]

\* the prototype is registered under the name the caller created it with
PrototypeNameFixed(s, a) == ActorName

\* std::string name = actor->name
PrototypeName(s, a) == s.actors[a].name

\* What a call through an empty unique_ptr does is not defined: the process
\* ends there, or carries on as if the call had not been made.
NullOutcomes == { "terminate", "continue" }

\* the first loop of Scene::Read, from the i-th prototype on: done tells
\* whether the loop came to its end
RECURSIVE ReadPrototypes(_, _, _, _)
ReadPrototypes(s, list, i, ub) ==
    IF i > Len(list) THEN [ s |-> s, done |-> TRUE ]
    ELSE LET g == Create(s, "Actor", ActorName)
         IN  IF g.ret = NoObj
             THEN IF ub = "terminate" THEN [ s |-> g.s, done |-> FALSE ]
                  ELSE ReadPrototypes(g.s, list, i + 1, ub)
             ELSE LET t == ActorRead(g.s, g.ret.at, list[i])
                  IN  ReadPrototypes(
                          RegisterPrototype(t, PrototypeName(t, g.ret.at), g.ret.at),
                          list, i + 1, ub)

\* the Actors of a document are started as they are added
ReadStartAlways == TRUE

\* AddActor(std::move(actor), false)
ReadStart == FALSE

\* the second loop of Scene::Read, from the i-th actor on
RECURSIVE ReadActors(_, _, _, _, _)
ReadActors(s, list, i, ub, trace) ==
    IF i > Len(list) THEN [ s |-> s, trace |-> trace, done |-> TRUE ]
    ELSE LET g == Create(s, "Actor", ActorName)
         IN  IF g.ret = NoObj
             THEN IF ub = "terminate"
                  THEN [ s |-> g.s, trace |-> trace, done |-> FALSE ]
                  ELSE ReadActors(g.s, list, i + 1, ub, trace)
             ELSE LET r == AddActor(ActorRead(g.s, g.ret.at, list[i]),
                                    g.ret.at, ReadStart)
                  IN  ReadActors(r.s, list, i + 1, ub, trace \o r.trace)

\* Scene::Read
SceneRead(s, doc, ub) ==
    LET p == ReadPrototypes(s, doc.prototypes, 1, ub)
    IN  IF p.done THEN ReadActors(p.s, doc.actors, 1, ub, << >>)
        ELSE [ s |-> p.s, trace |-> << >>, done |-> FALSE ]

\* what a caller sees of a call: the method, its arguments, the calls made
\* while it ran
SCallRecord(op, dt, force, doc, order, trace) ==
    [ op |-> op, dt |-> dt, force |-> force, doc |-> doc, order |-> order,
      trace |-> trace, tick |-> 1 - sLast.tick, name |-> << >>, ret |-> 0,
      rets |-> << >> ]

\* an operation of the Scene ends
SceneApply(s, rec) ==
    /\ HeapApply(s, heldActors)
    /\ sLast' = rec
    /\ UNCHANGED << regLog, fLast >>

\* Create<Actor>("Actor") makes an Actor
ActorIsRegistered ==
    RegistryFind(m_registry, FactoryKey(ActorName)).T = "Actor"

\* scene.Read(document)
SRead(doc) ==
    /\ ActorIsRegistered
    /\ Len(m_actors) + Len(doc.actors) <= MaxActors
    /\ \E r \in { SceneRead(FacState, doc, "terminate") } :
           SceneApply(r.s, SCallRecord("Scene::Read", 0, FALSE, doc, "none", r.trace))

\* the process has not ended
Running == sLast.op # "terminated"

\* the outcome of Scene::Load when the file cannot be read or parsed
LoadFailure(s) == [ s |-> s, trace |-> << >>, done |-> TRUE ]

\* scene.Load(sceneName) on a Scene that is empty: ok tells whether the file
\* was read and parsed, doc is what it holds, ub what a call through an
\* empty pointer does; Load returns ok, if it returns
SLoad(doc, ok, ub) ==
    /\ Running
    /\ m_actors = << >>
    /\ \E r \in { IF ok THEN SceneRead(FacState, doc, ub) ELSE LoadFailure(FacState) } :
           SceneApply(r.s,
               [ SCallRecord(IF r.done THEN "Scene::Load" ELSE "terminated",
                             0, ok, doc, "none", r.trace)
                     EXCEPT !.ret = IF ok /\ r.done THEN 1 ELSE 0 ])

\* the loop of Scene::Start, from the i-th Actor on
RECURSIVE StartLoop(_, _)
RECURSIVE StartLoopActive(_, _)

\* only the Actors that are active are started
StartLoopActive(s, i) ==
    IF i > Len(s.list) THEN << >>
    ELSE (IF s.actors[s.list[i]].active
          THEN ActorStart(s, s.list[i], i, Places(Len(s.list)))
                   \o << Ev("Actor::Start", i, 0, s, s.list[i], Places(Len(s.list))) >>
          ELSE << >>)
             \o StartLoopActive(s, i + 1)

StartLoop(s, i) ==
    IF i > Len(s.list) THEN << >>
    ELSE ActorStart(s, s.list[i], i, Places(Len(s.list)))
             \o << Ev("Actor::Start", i, 0, s, s.list[i], Places(Len(s.list))) >>
             \o StartLoop(s, i + 1)

\* scene.Start(): the loop, then return true
SStart ==
    /\ Running
    /\ SceneApply(FacState,
                  [ SCallRecord("Scene::Start", 0, FALSE, NoSceneDoc, "none",
                                StartLoop(FacState, 1)) EXCEPT !.ret = 1 ])

\* scene.AddActor(Instantiate(name), start)
SAddActor(name, start) ==
    /\ Len(m_actors) < MaxActors
    /\ \E g \in { Create(FacState, "Actor", name) } :
           /\ g.ret # NoObj
           /\ \E r \in { AddActor(g.s, g.ret.at, start) } :
                  SceneApply(r.s, SCallRecord("Scene::AddActor", 0, start,
                                              NoSceneDoc, "none", r.trace))

\* scene.Update(dt)
SUpdate(dt, order) ==
    \E r \in { SceneUpdate(FacState, dt, order) } :
        SceneApply(r.s, SCallRecord("Scene::Update", dt, FALSE, NoSceneDoc,
                                    order, r.trace))

\* the range-for ends where the list ended when the loop began
LoopEndAtStart(s, n) == n

\* for (auto& actor : m_actors): the loop ends at end() of the std::list,
\* behind the last element the list has when the iterator gets there
LoopEnd(s, n) == Len(s.list)

\* phase 1 of Scene::Update, from the i-th Actor on, when Update of a
\* Component of the Actor at place at calls scene->AddActor with a new
\* Actor: n is the length of the list when the loop began
RECURSIVE UpdatePhaseSpawning(_, _, _, _, _, _, _)
UpdatePhaseSpawning(s, i, dt, trace, at, start, n) ==
    IF i > LoopEnd(s, n) THEN [ s |-> s, trace |-> trace ]
    ELSE LET a == s.list[i]
             linked == Places(Len(s.list))
         IN  IF s.actors[a].active
             THEN LET u == ActorUpdate(s, a, i, linked, dt)
                      m == MakeActor(u.s)
                      r == IF i = at /\ u.trace # << >>
                           THEN AddActor(m.s, m.ret.at, start)
                           ELSE [ s |-> u.s, trace |-> << >> ]
                  IN  UpdatePhaseSpawning(r.s, i + 1, dt,
                          trace \o u.trace \o r.trace
                                \o << Ev("Actor::Update", i, 0, r.s, a,
                                         Places(Len(r.s.list))) >>,
                          at, start, n)
             ELSE UpdatePhaseSpawning(s, i + 1, dt, trace, at, start, n)

\* Scene::Update with such a Component
SceneUpdateSpawning(s, dt, order, at, start) ==
    LET p == UpdatePhaseSpawning(s, 1, dt, << >>, at, start, Len(s.list))
        r == ReapPhase(p.s, 1, Places(Len(p.s.list)), << >>, order, p.trace)
    IN  [ s |-> Relink(p.s, r.linked), trace |-> r.trace ]

\* scene.Update(dt) with such a Component on the Actor at place at, none
\* if at is 0
SUpdateSpawning(dt, order, at, start) ==
    /\ at = 0 \/ Len(m_actors) < MaxActors
    /\ \E r \in { SceneUpdateSpawning(FacState, dt, order, at, start) } :
           SceneApply(r.s, [ SCallRecord("Scene::Update", dt, start, NoSceneDoc,
                                         order, r.trace) EXCEPT !.ret = at ])

\* scene.Draw(renderer)
SDraw ==
    SceneApply(FacState, SCallRecord("Scene::Draw", 0, FALSE, NoSceneDoc, "none",
                                     SceneDraw(FacState, 1)))

\* scene.RemoveAllActors(force)
SRemoveAllActors(force) ==
    \E r \in { RemoveAllActors(FacState, force) } :
        SceneApply(r.s, SCallRecord("Scene::RemoveAllActors", 0, force,
                                    NoSceneDoc, "none", r.trace))

\* scene.Destroyed()
SDestroyed ==
    \E r \in { SceneDestroyed(FacState) } :
        SceneApply(r.s, SCallRecord("Scene::Destroyed", 0, FALSE, NoSceneDoc,
                                    "none", r.trace))

\* actor->Update(dt), actor being what scene.GetActorByName returned: the
\* i-th Actor of the list
AUpdate(i, dt) ==
    \E r \in { ActorUpdate(FacState, m_actors[i], i, Places(Len(m_actors)), dt) } :
        SceneApply(r.s, SCallRecord("Actor::Update", dt, FALSE, NoSceneDoc, "none",
                       Append(r.trace, Ev("Actor::Update", i, 0, r.s, m_actors[i],
                                          Places(Len(m_actors))))))

\* actor->Draw(renderer), likewise
\* actor->Start() on the i-th Actor of the Scene; rets are the values that
\* Start() of its Components returns.  Actor::Start returns true.
AStart(i, rets) ==
    SceneApply(FacState,
               [ SCallRecord("Actor::Start", 0, FALSE, NoSceneDoc, "none",
                     Append(StartComponents(FacState, m_actors[i], i,
                                            Places(Len(m_actors)), rets),
                            Ev("Actor::Start", i, 0, FacState, m_actors[i],
                               Places(Len(m_actors)))))
                     EXCEPT !.ret = 1, !.rets = rets ])

\* actor->Clone() on the i-th Actor of the Scene, the caller keeping the
\* clone
AClone(i) ==
    \E g \in { ActorClone(FacState, m_actors[i]) } :
        /\ HeapApply(g.s, [ heldActors EXCEPT !["first"] = g.ret.at ])
        /\ sLast' = SCallRecord("Actor::Clone", 0, FALSE, NoSceneDoc, "none",
                                << Ev("Actor::Clone", i, 0, FacState, m_actors[i],
                                      Places(Len(m_actors))) >>)
        /\ UNCHANGED << regLog, fLast >>

ADraw(i) ==
    SceneApply(FacState,
               SCallRecord("Actor::Draw", 0, FALSE, NoSceneDoc, "none",
                   Append(ActorDraw(FacState, m_actors[i], i, Places(Len(m_actors))),
                          Ev("Actor::Draw", i, 0, FacState, m_actors[i],
                             Places(Len(m_actors))))))

\* The program has started: FACTORY_REGISTER has registered the classes
\* under their names, and the Scene is empty.
SceneInit ==
    /\ RmInit
    /\ EvInit
    /\ m_registry =
           Register(Register(Register([ reg |-> << >>, actors |-> << >>,
                                        comps |-> << >>, list |-> << >> ],
                                      "Actor", ActorName),
                             "RotationComponent", RotationComponentName),
                    "ModelRenderer", ModelRendererName).reg
    /\ actors = << >>
    /\ components = << >>
    /\ heldActors = [ v \in ActorVars |-> NULL ]
    /\ moved = [ actors |-> << >>, comps |-> << >> ]
    /\ regLog = << >>
    /\ fLast = NoFCall
    /\ m_actors = << >>
    /\ sLast = NoSCall

SceneNext ==
    \/ \E doc \in SceneDocs : SRead(doc)
    \/ \E n \in Names, start \in BOOLEAN : SAddActor(n, start)
    \/ \E dt \in FrameTimes, order \in EraseIfOrders : SUpdate(dt, order)
    \/ SDraw
    \/ \E force \in BOOLEAN : SRemoveAllActors(force)
    \/ SDestroyed
    \/ SStart

SpawnNext ==
    \/ \E doc \in SceneDocs : SRead(doc)
    \/ \E dt \in FrameTimes, order \in EraseIfOrders, at \in 0..Len(m_actors),
          start \in BOOLEAN : SUpdateSpawning(dt, order, at, start)

\* a Scene with inactive Actors: the game updates the Scene, and updates
\* single Actors that GetActorByName has found
IdleNext ==
    \/ \E doc \in IdleDocs : SRead(doc)
    \/ \E i \in 1..Len(m_actors), dt \in FrameTimes : AUpdate(i, dt)
    \/ \E dt \in FrameTimes, order \in EraseIfOrders : SUpdate(dt, order)

LifeNext ==
    \/ \E doc \in SceneDocs, ok \in BOOLEAN : SLoad(doc, ok, "terminate")
    \/ \E i \in 1..Len(m_actors), dt \in DeltaTimes : AUpdate(i, dt)
    \/ \E i \in 1..Len(m_actors) : ADraw(i)
    \/ \E i \in 1..Len(m_actors) : AClone(i)
    \/ \E i \in 1..Len(m_actors) :
           \E rets \in [ 1..Len(actors[m_actors[i]].m_components) -> BOOLEAN ] :
               AStart(i, rets)

\* ---------------------------------------------------- loading a Scene
\* An Actor document with three components: a RotationComponent, a component
\* of the type given, a ModelRenderer.
BrokenDoc(type) ==
    [ name |-> <<70, 111, 111>>, active |-> TRUE, lifespan |-> 0,
      persistent |-> FALSE,
      components |-> << [ type |-> RotationComponentName, active |-> TRUE,
                          rotate |-> 1 ],
                        [ type |-> type, active |-> TRUE, rotate |-> 1 ],
                        [ type |-> ModelRendererName, active |-> TRUE,
                          rotate |-> 0 ] >> ]

\* the types of the middle component: none, "foo" that nothing is registered
\* under, "Bar" that the prototype of the document is registered under,
\* "Actor", "RotationComponent"
MiddleTypes ==
    { NoType, <<102, 111, 111>>, <<66, 97, 114>>, ActorName, RotationComponentName }

\* a prototype that is named "Actor" and has a ModelRenderer
ActorProtoDoc ==
    [ name |-> ActorName, active |-> TRUE, lifespan |-> 0, persistent |-> FALSE,
      components |-> << [ type |-> ModelRendererName, active |-> TRUE,
                          rotate |-> 0 ] >> ]

\* the documents a scene file holds: one prototype, and two actors whose
\* names differ in case only
LoadDocs ==
    { [ prototypes |-> << KeptDoc >>, actors |-> << BrokenDoc(t), IdleDoc >> ] :
          t \in MiddleTypes }
        \cup { [ prototypes |-> << ActorProtoDoc >>,
                 actors |-> << BrokenDoc(NoType), IdleDoc >> ] }

\* the name is compared as it is spelled
equalsExactly(str1, str2) == str1 = str2

\* neu::equalsIgnoreCase
equalsIgnoreCase(str1, str2) ==
    /\ Len(str1) = Len(str2)
    /\ \A k \in 1..Len(str1) : tolower(str1[k]) = tolower(str2[k])

\* Scene::GetActorByName<Actor>, from the i-th Actor on: the place in the
\* list of the Actor returned, 0 for nullptr.  T derives from Actor, and
\* Actor is the only such class, so that the cast succeeds.
RECURSIVE GetActorByName(_, _, _)
GetActorByName(s, name, i) ==
    IF i > Len(s.list) THEN 0
    ELSE IF equalsIgnoreCase(s.actors[s.list[i]].name, name) THEN i
    ELSE GetActorByName(s, name, i + 1)

\* scene.GetActorByName<Actor>(name)
SGetActorByName(name) ==
    /\ Running
    /\ SceneApply(FacState,
                  [ SCallRecord("Scene::GetActorByName", 0, FALSE, NoSceneDoc,
                                "none", << >>)
                        EXCEPT !.name = name,
                               !.ret = GetActorByName(FacState, name, 1) ])

\* Factory::Instance().Register<T>(name) and RemoveAll() while the process
\* runs
LRegister(T, name) == Running /\ OwnRegister(T, name)

LRemoveAll == Running /\ OwnRemoveAll

LoadNext ==
    \/ \E doc \in LoadDocs, ok \in BOOLEAN, ub \in NullOutcomes : SLoad(doc, ok, ub)
    \/ SStart
    \/ \E n \in Names : SGetActorByName(n)
    \/ \E T \in FactoryTypes, n \in { ActorName, RotationComponentName } :
           LRegister(T, n)
    \/ LRemoveAll

SpecLoad == SceneInit /\ [][LoadNext]_vars

Init == RmInit /\ FacInit /\ EvInit

Next == RmNext

\* callers of the ResourceManager look at what each call did
Spec == Init /\ [][Next]_vars

\* a caller of the ResourceManager holds on to the handle it received
SpecHeld == Init /\ [][HeldNext]_vars

\* callers of the Factory look at what each call did
SpecFactory == Init /\ [][FacNext]_vars

\* a caller of the Factory owns the Actors it creates
SpecActor == Init /\ [][OwnNext]_vars

\* the Engine runs a Scene
SpecScene == SceneInit /\ [][SceneNext]_vars

\* a caller updates and draws the Actors of a Scene one by one
SpecLife == SceneInit /\ [][LifeNext]_vars

SpecIdle == SceneInit /\ [][IdleNext]_vars

\* a Scene whose Components add Actors while they are updated
SpecSpawn == SceneInit /\ [][SpawnNext]_vars

\* the EventManager alone
SpecEvent == Init /\ [][EventNext]_vars

SpecDispatch == Init /\ [][DispatchNext]_vars

\* ------------------------------------------------------------------ claims
\* the step is a call of the ResourceManager, described by rmLast'
RmCalled == rmLast'.tick # rmLast.tick

\* call c is a request for a resource
IsReq(c) == c.op \in { "Get", "GetWithID" }

\* the cache key call c asks for
ReqKey(c) == toLower(c.id)

\* the Load of the requested resource ran in call c and returned false
OwnLoadFailed(c) == Loaded(c) /\ c.loads[1].ok = FALSE

\* C1 (as claimed): any two requests Get<T>(name1), Get<T>(name2) with equal
\* lowercased names return the identical instance, and Load of the resource
\* runs at most once over the two calls.  Stated for two calls in a row.
C1_AnyTwoGets ==
    [][ ( /\ RmCalled
          /\ rmLast.op = "Get" /\ rmLast'.op = "Get"
          /\ rmLast.T = rmLast'.T
          /\ toLower(rmLast.name) = toLower(rmLast'.name) )
        => ( /\ rmLast'.ret = rmLast.ret
             /\ ~(Loaded(rmLast) /\ Loaded(rmLast')) ) ]_vars

\* C1 (amended): when an earlier Get<T>(name1) returned a non-empty handle
\* and RemoveAll has not run since, Get<T>(name2) with the same lowercased
\* name returns the identical instance and does not invoke Load, so Load
\* runs at most once over the two calls.
C1_SameInstance ==
    (rmLast.op = "Get" /\ rmLast.before # {})
    => ( /\ \A h \in rmLast.before : h.ret = rmLast.ret
         /\ rmLast.loads = << >>
         /\ rmLast.made = 0 )

\* the second of two Get calls whose names differ only in case has returned
C1_Witness ==
    /\ rmLast.op = "Get"
    /\ rmLast.ret # NULL
    /\ \E h \in rmLast.before : h.name # rmLast.name /\ h.ret = rmLast.ret

\* C2 (as claimed): at most one live instance per canonical key in every
\* state reachable by Get, GetWithID and RemoveAll with callers keeping or
\* releasing handles.
C2_OneLivePerKey ==
    \A x \in DOMAIN resObjs : \A y \in DOMAIN resObjs :
        resObjs[x].key = resObjs[y].key => x = y

\* C2 (amended): every live instance is the cache's entry under its own
\* canonical key, unless it was taken out of the cache (by RemoveAll, or by
\* the entry of an enclosing request for the same key) and lives on because
\* a caller or another resource holds it; so at most one live instance per
\* key was not taken out of the cache.
C2_OneCachedPerKey ==
    \A x \in DOMAIN resObjs \ displaced :
        /\ resObjs[x].key \in DOMAIN m_resources
        /\ m_resources[resObjs[x].key] = x

\* a caller still holds an instance that RemoveAll took out of the cache,
\* and the cache holds a newer instance under the same key
C2_Witness ==
    \E x \in displaced \cap resHeld : \E y \in Range(m_resources) :
        x # y /\ resObjs[x].key = resObjs[y].key

C4_FailedLoadNotCached ==
    [][ /\ ( RmCalled /\ IsReq(rmLast') /\ OwnLoadFailed(rmLast') )
           => ( /\ rmLast'.ret = NULL
                /\ ReqKey(rmLast') \notin DOMAIN m_resources'
                /\ m_resources' = m_resources )
        /\ ( /\ RmCalled /\ IsReq(rmLast) /\ OwnLoadFailed(rmLast)
             /\ IsReq(rmLast') /\ ReqKey(rmLast') = ReqKey(rmLast) )
           => ( /\ Loaded(rmLast')
                /\ rmLast'.loads[1].arg = rmLast'.name ) ]_vars

\* a Load has just failed while the cache held other entries
C4_Witness ==
    /\ IsReq(rmLast) /\ OwnLoadFailed(rmLast)
    /\ rmLast.ret = NULL
    /\ m_resources # << >>

\* C5 (as claimed): GetWithID<T>(id, name) returns the entry under the
\* lowercased id without invoking Load, whatever name is; without an entry
\* it loads from name and stores the instance under the lowercased id only.
C5_EntryReturned ==
    [][ ( RmCalled /\ rmLast'.op = "GetWithID" )
        => IF ReqKey(rmLast') \in DOMAIN m_resources
           THEN /\ rmLast'.ret = m_resources[ReqKey(rmLast')]
                /\ rmLast'.loads = << >>
           ELSE /\ Loaded(rmLast')
                /\ rmLast'.loads[1].arg = rmLast'.name
                /\ rmLast'.ret # NULL
                   => \A k \in DOMAIN m_resources' :
                          m_resources'[k] = rmLast'.ret <=> k = ReqKey(rmLast') ]_vars

\* C5 (amended): with an entry under the lowercased id, GetWithID<T>(id, name)
\* invokes no Load and constructs nothing whatever name is, and returns that
\* entry when it is a T (an empty handle when it is not); without an entry
\* the new instance is loaded from name and, when Load succeeds, stored
\* under the lowercased id and under no other key.
C5_KeyAndNameIndependent ==
    [][ ( RmCalled /\ rmLast'.op = "GetWithID" )
        => IF ReqKey(rmLast') \in DOMAIN m_resources
           THEN /\ rmLast'.ret \in { m_resources[ReqKey(rmLast')], NULL }
                /\ ResIsA(resObjs[m_resources[ReqKey(rmLast')]].type, rmLast'.T)
                   => rmLast'.ret = m_resources[ReqKey(rmLast')]
                /\ rmLast'.loads = << >> /\ rmLast'.made = 0
                /\ m_resources' = m_resources
           ELSE /\ Loaded(rmLast')
                /\ rmLast'.loads[1].arg = rmLast'.name
                /\ rmLast'.loads[1].type = rmLast'.T
                /\ rmLast'.ret # NULL
                   => /\ rmLast'.ret = rmLast'.loads[1].obj
                      /\ \A k \in DOMAIN m_resources' :
                            m_resources'[k] = rmLast'.ret <=> k = ReqKey(rmLast') ]_vars

\* GetWithID has just loaded an instance from a name other than its id, and
\* the cache holds entries under two keys
C5_Witness ==
    /\ rmLast.op = "GetWithID"
    /\ toLower(rmLast.name) # ReqKey(rmLast)
    /\ Loaded(rmLast) /\ rmLast.ret # NULL
    /\ m_resources[ReqKey(rmLast)] = rmLast.ret
    /\ Cardinality(DOMAIN m_resources) > 1

\* ------------------------------------------------- claims about the Factory
\* the registrations on record whose canonical name is that of name
RegsOf(name) ==
    { i \in 1..Len(regLog) : toLower(regLog[i].name) = toLower(name) }

Max(S) == CHOOSE x \in S : \A y \in S : y <= x

\* the most recent of them
LastReg(name) == regLog[Max(RegsOf(name))]

\* what a default-constructed object of class T looks like
DefaultValue(T) == [ NoValue EXCEPT !.type = T ]

\* the step is a call of Create, described by fLast'
FacCreated == fLast'.tick # fLast.tick /\ fLast'.op = "Create"

\* C6: when the registration in force for a canonical name is Register<T>(n),
\* Create<T>(m) returns an object, and the object is a T, for every name m
\* with that canonical name, however n and m are cased.
C6_CaseInsensitiveCreate ==
    ( /\ fLast.op = "Create"
      /\ RegsOf(fLast.name) # {}
      /\ LastReg(fLast.name).op = "Register"
      /\ LastReg(fLast.name).T = fLast.T )
    => ( fLast.ret # NoValue /\ fLast.ret.type = fLast.T )

\* a class was registered under one spelling and created under another
C6_Witness ==
    /\ fLast.op = "Create"
    /\ RegsOf(fLast.name) # {}
    /\ LastReg(fLast.name).op = "Register"
    /\ LastReg(fLast.name).T = fLast.T
    /\ LastReg(fLast.name).name # fLast.name
    /\ fLast.ret.type = fLast.T

\* C7: the object Create(name) makes comes from the strategy of the most
\* recent registration whose canonical name is that of name: an object of the
\* registered class, default-constructed after Register, and carrying the
\* lifespan and the components of the prototype after RegisterPrototype.
C7_LastRegistrationWins ==
    ( fLast.op = "Create" /\ RegsOf(fLast.name) # {} )
    => LET e == LastReg(fLast.name)
       IN  /\ fLast.made.type = e.T
           /\ e.op = "Register" => fLast.made = DefaultValue(e.T)
           /\ e.op = "RegisterPrototype" =>
                  /\ fLast.made.lifespan = e.value.lifespan
                  /\ fLast.made.components = e.value.components

\* Create ran after a class and a prototype were registered under spellings
\* of one canonical name
C7_Witness ==
    /\ fLast.op = "Create"
    /\ fLast.made # NoValue
    /\ \E i \in RegsOf(fLast.name) :
           /\ i # Max(RegsOf(fLast.name))
           /\ regLog[i].op # LastReg(fLast.name).op

\* C8: Create<T>(name) returns an empty pointer exactly when nothing is
\* registered under the canonical name or the registered class is not a T,
\* and a call that returns empty leaves the registry, the prototypes and
\* every other object as they were.
C8_EmptyExactlyWhen ==
    [][ FacCreated =>
          /\ (fLast'.ret = NoValue) <=>
                 ( \/ RegsOf(fLast'.name) = {}
                   \/ ~ObjIsA(LastReg(fLast'.name).T, fLast'.T) )
          /\ (fLast'.ret = NoValue) =>
                 ( /\ m_registry' = m_registry
                   /\ actors' = actors
                   /\ components' = components )
      ]_vars

\* a clone of a prototype with components was made, was not a T and was
\* thrown away
C8_Witness ==
    /\ fLast.op = "Create"
    /\ fLast.ret = NoValue
    /\ RegsOf(fLast.name) # {}
    /\ LastReg(fLast.name).op = "RegisterPrototype"
    /\ fLast.made.components # << >>

\* --------------------------------------- claims about Actors and Components
\* the prototypes the registry owns
Prototypes == { m_registry[k].m_prototype : k \in DOMAIN m_registry } \ { NULL }

\* what Actor a looks like from outside, before and after a step
View(a) == Describe(FacState, ActorRef(a))

ViewNext(a) ==
    Describe([ reg |-> m_registry', actors |-> actors', comps |-> components',
               list |-> m_actors' ],
             ActorRef(a))

\* the Components in the list of Actor a
ComponentsOf(a) == Range(actors[a].m_components)

\* C9: the component lists of any two Actors, prototypes included, are
\* disjoint; a step changes the fields seen through at most one Actor and
\* never those of a prototype; and an Actor a caller gets from Create<Actor>
\* carries the lifespan and component state of the prototype registered under
\* some name, or is a default-constructed Actor.
C9_IndependentClones ==
    [][ /\ \A a, b \in DOMAIN actors' :
               a # b => (ComponentsOf(a) \cap ComponentsOf(b))' = {}
        /\ \A p \in Prototypes \cap DOMAIN moved'.actors :
               ViewNext(moved'.actors[p]) = View(p)
        /\ Cardinality({ a \in DOMAIN moved'.actors :
                             ViewNext(moved'.actors[a]) # View(a) }) <= 1
        /\ \A a \in Owned(heldActors)' \ Range(moved'.actors) :
               \E k \in DOMAIN m_registry :
                   IF m_registry[k].kind = "PrototypeCreator"
                   THEN /\ ViewNext(a).lifespan = View(m_registry[k].m_prototype).lifespan
                        /\ ViewNext(a).components =
                               View(m_registry[k].m_prototype).components
                   ELSE /\ m_registry[k].T = "Actor"
                        /\ ViewNext(a) = DefaultValue("Actor")
      ]_vars

\* two clones of a prototype with components: one was changed, the other
\* still shows the component state of the prototype
C9_Witness ==
    \E p \in Prototypes : \E a, b \in Owned(heldActors) :
        /\ a # b
        /\ View(p).components # << >>
        /\ View(b).lifespan = View(p).lifespan
        /\ View(b).components = View(p).components
        /\ View(a).lifespan = View(p).lifespan
        /\ Len(View(a).components) = Len(View(p).components)
        /\ View(a).components # View(p).components

\* C10: every Component in the list of an Actor has that Actor as owner, no
\* Component is in two lists or twice in one, and a Component that stays
\* attached keeps the owner it had.
C10_OwnerIsContainer ==
    [][ /\ \A a \in DOMAIN actors' :
               \A i \in 1..Len(actors'[a].m_components) :
                   /\ actors'[a].m_components[i] \in DOMAIN components'
                   /\ components'[actors'[a].m_components[i]].owner = a
        /\ \A a, b \in DOMAIN actors' :
               \A i \in 1..Len(actors'[a].m_components) :
                   \A j \in 1..Len(actors'[b].m_components) :
                       actors'[a].m_components[i] = actors'[b].m_components[j]
                           => (a = b /\ i = j)
        /\ \A c \in DOMAIN moved'.comps :
               /\ components[c].owner \in DOMAIN moved'.actors
               /\ components'[moved'.comps[c]].owner =
                      moved'.actors[components[c].owner]
      ]_vars

\* a prototype and a clone of it, two Components each
C10_Witness ==
    \E p \in Prototypes : \E a \in Owned(heldActors) :
        /\ Len(actors[p].m_components) = 2
        /\ Len(actors[a].m_components) = 2
        /\ \A i \in 1..2 : components[actors[p].m_components[i]].owner = p
        /\ \A i \in 1..2 : components[actors[a].m_components[i]].owner = a

\* ------------------------------------------------- claims about the Scene
\* the step is a call of op on the Scene or on one of its Actors
SceneCall(op) == sLast' # sLast /\ sLast'.op = op

\* the calls of method ev in the trace of the last call, as places in it
EventsOf(trace, ev) == { n \in 1..Len(trace) : trace[n].ev = ev }

\* the Actor a direct call of Actor::Update or Actor::Draw was made on: its
\* place in the list
CalledActor(rec) == rec.trace[Len(rec.trace)].actor

\* C11 as stated: for an Actor with lifespan L > 0, the Update call at which
\* the cumulative delta time first reaches or exceeds L sets destroyed and
\* invokes Update on no Component, and every earlier Update call leaves
\* destroyed false.  real is L less the sum of the delta times so far.
C11_CumulativeTime ==
    [][ SceneCall("Actor::Update") =>
            LET a == m_actors[CalledActor(sLast')]
                b == moved'.actors[a]
            IN  (~actors[a].destroyed /\ actors[a].lifespan > 0) =>
                    /\ actors'[b].destroyed = (actors[a].real - sLast'.dt <= 0)
                    /\ actors'[b].destroyed =>
                           EventsOf(sLast'.trace, "Component::Update") = { }
      ]_vars

\* C11, amended: for an Actor with lifespan L > 0, the Update call at which
\* the lifespan, reduced by each call's delta time in float arithmetic,
\* first is zero or less sets destroyed and invokes Update on no Component,
\* and every earlier Update call leaves destroyed false.
C11_Countdown ==
    [][ SceneCall("Actor::Update") =>
            LET a == m_actors[CalledActor(sLast')]
                b == moved'.actors[a]
            IN  (~actors[a].destroyed /\ actors[a].lifespan > 0) =>
                    /\ actors'[b].destroyed =
                           (FloatSub(actors[a].lifespan, sLast'.dt) <= 0)
                    /\ actors'[b].destroyed =>
                           EventsOf(sLast'.trace, "Component::Update") = { }
      ]_vars

\* an Actor with two active Components has been updated with 0.1f and then
\* with 0.5f: its lifespan of 0.6f is used up and it is destroyed by a call
\* that updated no Component, while the delta times sum to less than 0.6f
C11_Witness ==
    /\ sLast.op = "Actor::Update"
    /\ sLast.dt = Half
    /\ Len(sLast.trace) = 1
    /\ \E a \in Range(m_actors) :
           /\ a = m_actors[CalledActor(sLast)]
           /\ actors[a].destroyed
           /\ actors[a].lifespan = 0
           /\ actors[a].real = SixTenths - Tenth - Half
           /\ actors[a].real > 0
           /\ \A i \in 1..Len(actors[a].m_components) :
                  components[actors[a].m_components[i]].active
           /\ Len(actors[a].m_components) = 2

\* the Actor at address a as it is after the step, with the addresses of its
\* Components as they were before
Carried(a) ==
    LET b == moved'.actors[a]
    IN  [ actors'[b] EXCEPT !.m_components =
              [ k \in 1..Len(actors[a].m_components) |->
                    IF moved'.comps[actors[a].m_components[k]] = @[k]
                    THEN actors[a].m_components[k] ELSE NULL ] ]

\* C12: for an Actor with destroyed == true, Actor::Update and Actor::Draw
\* invoke no Component's Update or Draw and leave every field of the Actor,
\* lifespan included, unchanged.
C12_DestroyedIsIdle ==
    [][ (SceneCall("Actor::Update") \/ SceneCall("Actor::Draw")) =>
            LET a == m_actors[CalledActor(sLast')]
            IN  actors[a].destroyed =>
                    /\ EventsOf(sLast'.trace, "Component::Update") = { }
                    /\ EventsOf(sLast'.trace, "Component::Draw") = { }
                    /\ Carried(a) = actors[a]
      ]_vars

\* Draw was called on a destroyed Actor that has an active ModelRenderer,
\* and drew nothing
C12_Witness ==
    /\ sLast.op = "Actor::Draw"
    /\ EventsOf(sLast.trace, "Component::Draw") = { }
    /\ LET a == m_actors[CalledActor(sLast)]
       IN  /\ actors[a].destroyed
           /\ \E i \in 1..Len(actors[a].m_components) :
                  /\ components[actors[a].m_components[i]].active
                  /\ IsRenderer(components[actors[a].m_components[i]].type)

\* C13: an Actor whose lifespan is <= 0 is never marked destroyed by
\* Actor::Update, whatever the delta time, and Update leaves its lifespan as
\* it is.
C13_NoLifespanNoExpiry ==
    [][ SceneCall("Actor::Update") =>
            LET a == m_actors[CalledActor(sLast')]
                b == moved'.actors[a]
            IN  actors[a].lifespan <= 0 =>
                    /\ actors'[b].destroyed = actors[a].destroyed
                    /\ actors'[b].lifespan = actors[a].lifespan
      ]_vars

\* an Actor read with a lifespan below zero has been updated and is alive
C13_Witness ==
    /\ sLast.op = "Actor::Update"
    /\ sLast.dt \in DeltaTimes
    /\ LET a == m_actors[CalledActor(sLast)]
       IN  /\ actors[a].lifespan < 0
           /\ actors[a].real = actors[a].lifespan
           /\ ~actors[a].destroyed

\* the calls in a trace that reap: Destroyed() on an Actor or on one of its
\* Components, and the Actor leaving the list
Reaps(trace) ==
    EventsOf(trace, "Actor::Destroyed") \cup EventsOf(trace, "Component::Destroyed")
        \cup EventsOf(trace, "erase")

DestroyedAtPhaseEnd(i) ==
    \/ actors[m_actors[i]].destroyed
    \/ \E n \in EventsOf(sLast'.trace, "Actor::Update") :
           sLast'.trace[n].actor = i /\ sLast'.trace[n].destroyed

\* C15: an Actor whose destroyed flag is true when the update phase of a
\* Scene::Update call ends is not in the container when the call returns,
\* and none of its Components receives Update or Draw in that frame's
\* Scene::Draw or later: the Actor and its Components are gone with the
\* call, and no call ever updates or draws a Component of a destroyed Actor.
C15_DestroyedIsReaped ==
    [][ /\ SceneCall("Scene::Update") =>
               \A i \in 1..Len(m_actors) :
                   DestroyedAtPhaseEnd(i) =>
                       /\ m_actors[i] \notin DOMAIN moved'.actors
                       /\ \A c \in Range(actors[m_actors[i]].m_components) :
                              c \notin DOMAIN moved'.comps
                       /\ Len(m_actors') < Len(m_actors)
        /\ \A n \in EventsOf(sLast'.trace, "Component::Update")
                        \cup EventsOf(sLast'.trace, "Component::Draw") :
               ~sLast'.trace[n].destroyed
        /\ \A a \in Range(m_actors') : ~actors'[a].destroyed
      ]_vars

\* a Scene::Update call has reaped an Actor with two Components whose
\* lifespan ran out in it, and has left another Actor in the container
C15_Witness ==
    /\ sLast.op = "Scene::Update"
    /\ m_actors # << >>
    /\ \E n \in EventsOf(sLast.trace, "Actor::Update") :
           /\ sLast.trace[n].destroyed
           /\ \E r \in EventsOf(sLast.trace, "Component::Destroyed") :
                  sLast.trace[r].actor = sLast.trace[n].actor /\ sLast.trace[r].comp = 2
           /\ Len(m_actors) < Len(sLast.trace[n].list)

\* the calls of Destroyed() on an Actor in a trace
DestroyedCalls(trace) == EventsOf(trace, "Actor::Destroyed")

\* C16 as stated: in the reap phase of Scene::Update, Destroyed() has been
\* invoked on every Actor with destroyed == true before any of them is
\* erased: while one reaped Actor's Destroyed() runs, every other Actor
\* reaped in the same pass is still in the container.
C16_AllBeforeAnyErase ==
    [][ SceneCall("Scene::Update") =>
            LET t == sLast'.trace
            IN  \A n \in DestroyedCalls(t) : \A m \in DestroyedCalls(t) :
                    t[m].actor \in Range(t[n].list)
      ]_vars

\* C16, amended: in the reap phase of Scene::Update, Destroyed() is invoked
\* on each Actor with destroyed == true before that Actor is erased: while
\* one reaped Actor's Destroyed() runs, that Actor and every Actor behind it
\* in the container are still in the container; reaped Actors ahead of it
\* may have been erased already.
C16_EachBeforeOwnErase ==
    [][ SceneCall("Scene::Update") =>
            LET t == sLast'.trace
            IN  /\ \A i \in 1..Len(m_actors) :
                       DestroyedAtPhaseEnd(i) =>
                           \E n \in DestroyedCalls(t) : \E e \in EventsOf(t, "erase") :
                               t[n].actor = i /\ t[e].actor = i /\ n < e
                /\ \A n \in DestroyedCalls(t) \cup EventsOf(t, "Component::Destroyed") :
                       \A j \in t[n].actor..Len(m_actors) : j \in Range(t[n].list)
      ]_vars

\* two Actors were reaped in one pass, and the first was out of the
\* container when Destroyed() ran on the second
C16_Witness ==
    /\ sLast.op = "Scene::Update"
    /\ \E n, m \in DestroyedCalls(sLast.trace) :
           /\ n < m
           /\ sLast.trace[n].actor \in Range(sLast.trace[n].list)
           /\ sLast.trace[n].actor \notin Range(sLast.trace[m].list)
           /\ sLast.trace[m].actor \in Range(sLast.trace[m].list)

\* the Actor at place i of the list is out of the container, and freed, when
\* the step is done
Left(i) == m_actors[i] \notin DOMAIN moved'.actors

\* the calls in a trace that are made on the Actor at place i or on one of
\* its Components
CallsOn(trace, i) == { n \in 1..Len(trace) : trace[n].actor = i /\ trace[n].ev # "erase" }

\* C17: over any sequence of calls of the Scene, Destroyed() is invoked
\* exactly once on each Actor that leaves the container, before it is
\* removed, and after that call the Actor receives no Start, Update, Draw or
\* Destroyed: a call invokes Destroyed() on the Actors that leave with it
\* and on no other, once each, as the last call the Actor receives, while
\* the Actor is still in the container; the Actor is freed with the call.
C17_DestroyedOnceThenGone ==
    [][ sLast' # sLast =>
            LET t == sLast'.trace
            IN  \A i \in 1..Len(m_actors) :
                    LET D == { n \in DestroyedCalls(t) : t[n].actor = i }
                        E == { n \in EventsOf(t, "erase") : t[n].actor = i }
                    IN  IF Left(i)
                        THEN /\ Cardinality(D) = 1
                             /\ Cardinality(E) = 1
                             /\ sLast'.op \in { "Scene::Update", "Scene::RemoveAllActors",
                                               "Scene::Destroyed" }
                             /\ \A n \in D :
                                    /\ i \in Range(t[n].list)
                                    /\ \A e \in E : n < e /\ i \notin Range(t[e].list)
                                    /\ \A m \in CallsOn(t, i) : m <= n
                        ELSE /\ D = { }
                             /\ E = { }
                             /\ moved'.actors[m_actors[i]] \in Range(m_actors')
      ]_vars

\* Scene::Destroyed has emptied a container of two Actors or more, one of
\* them with Components, after Destroyed() on each of them
C17_Witness ==
    /\ sLast.op = "Scene::Destroyed"
    /\ m_actors = << >>
    /\ Cardinality(DestroyedCalls(sLast.trace)) >= 2
    /\ Cardinality(EventsOf(sLast.trace, "erase")) =
           Cardinality(DestroyedCalls(sLast.trace))
    /\ EventsOf(sLast.trace, "Component::Destroyed") # { }

\* the places of the Actors that RemoveAllActors(force) is to keep
KeptPlaces(force) ==
    SelectSeq(Places(Len(m_actors)),
              LAMBDA i : actors[m_actors[i]].persistent /\ ~force)

\* C18: RemoveAllActors(force) removes exactly the Actors with !persistent
\* || force, invoking Destroyed() on each before erasing it; every Actor with
\* persistent == true is kept when force is false, with its fields
\* unchanged, no Destroyed() call, and the same relative order.
C18_RemoveAllActors ==
    [][ SceneCall("Scene::RemoveAllActors") =>
            LET t == sLast'.trace
                kept == KeptPlaces(sLast'.force)
            IN  /\ Len(m_actors') = Len(kept)
                /\ \A k \in 1..Len(kept) :
                       /\ m_actors[kept[k]] \in DOMAIN moved'.actors
                       /\ m_actors'[k] = moved'.actors[m_actors[kept[k]]]
                       /\ Carried(m_actors[kept[k]]) = actors[m_actors[kept[k]]]
                       /\ \A n \in 1..Len(t) : t[n].actor # kept[k]
                /\ \A i \in 1..Len(m_actors) :
                       i \notin Range(kept) =>
                           \E n \in DestroyedCalls(t) : \E e \in EventsOf(t, "erase") :
                               /\ t[n].actor = i
                               /\ t[e].actor = i
                               /\ n < e
                               /\ i \in Range(t[n].list)
      ]_vars

\* RemoveAllActors(false) has kept two persistent Actors in their order and
\* removed an Actor that was between them
C18_Witness ==
    /\ sLast.op = "Scene::RemoveAllActors"
    /\ ~sLast.force
    /\ Len(m_actors) = 2
    /\ actors[m_actors[1]].name # actors[m_actors[2]].name
    /\ \A a \in Range(m_actors) : actors[a].persistent
    /\ \E e \in EventsOf(sLast.trace, "erase") :
           sLast.trace[e].actor = 2 /\ sLast.trace[e].list = << 1, 3 >>

\* C19: in every reachable state each Actor held in the Scene's container
\* has its scene back-reference equal to that Scene, whether AddActor was
\* called directly or by Scene::Read.
C19_SceneBackReference ==
    \A i \in 1..Len(m_actors) : actors[m_actors[i]].scene = ThisScene

\* the container holds an Actor that Scene::Read made and, behind it, an
\* Actor that the caller added with AddActor; prototypes have no Scene
C19_Witness ==
    /\ sLast.op = "Scene::AddActor"
    /\ Len(m_actors) >= 2
    /\ actors[m_actors[1]].persistent
    /\ actors[m_actors[Len(m_actors)]].scene = ThisScene
    /\ \E k \in DOMAIN m_registry :
           /\ m_registry[k].m_prototype # NULL
           /\ actors[m_registry[k].m_prototype].scene = NULL

\* the Actor at address a after the step is what Actor::Read makes of entry
Matches(a, entry) ==
    /\ actors'[a].name = entry.name
    /\ actors'[a].active = entry.active
    /\ actors'[a].lifespan = entry.lifespan
    /\ actors'[a].persistent = entry.persistent
    /\ Len(actors'[a].m_components) = Len(entry.components)
    /\ \A k \in 1..Len(entry.components) :
           components'[actors'[a].m_components[k]].rotate = entry.components[k].rotate

\* after the step the Factory holds, under the canonical form of the name of
\* entry, a prototype made from entry that is not in the container
RegisteredFrom(entry) ==
    LET k == FactoryKey(entry.name)
    IN  /\ k \in DOMAIN m_registry'
        /\ m_registry'[k].kind = "PrototypeCreator"
        /\ m_registry'[k].m_prototype \in DOMAIN actors'
        /\ Matches(m_registry'[k].m_prototype, entry)
        /\ m_registry'[k].m_prototype \notin Range(m_actors')

\* C20 as stated: after Scene::Read of a document every entry of the
\* prototypes list is registered in the Factory under the canonical form of
\* its own name and none of them is in the container; the container holds
\* exactly one Actor per entry of the actors list, in document order.
C20_ReadAsStated ==
    [][ SceneCall("Scene::Read") =>
            LET doc == sLast'.doc
            IN  /\ \A i \in 1..Len(doc.prototypes) : RegisteredFrom(doc.prototypes[i])
                /\ Len(m_actors') = Len(doc.actors)
                /\ \A j \in 1..Len(doc.actors) : Matches(m_actors'[j], doc.actors[j])
      ]_vars

\* C20, amended: after Scene::Read of a document every entry of the
\* prototypes list that no later entry of the list shares its canonical name
\* with is registered in the Factory under the canonical form of its own
\* name, and no prototype is in the container; Read has put behind the
\* Actors that the container held exactly one Actor per entry of the actors
\* list, in document order.
C20_ReadAppends ==
    [][ SceneCall("Scene::Read") =>
            LET doc == sLast'.doc
                n == Len(m_actors)
            IN  /\ \A i \in 1..Len(doc.prototypes) :
                       (\A j \in (i + 1)..Len(doc.prototypes) :
                            FactoryKey(doc.prototypes[j].name)
                                # FactoryKey(doc.prototypes[i].name))
                           => RegisteredFrom(doc.prototypes[i])
                /\ \A k \in DOMAIN m_registry' :
                       m_registry'[k].m_prototype \notin Range(m_actors')
                /\ Len(m_actors') = n + Len(doc.actors)
                /\ \A i \in 1..n : m_actors'[i] = moved'.actors[m_actors[i]]
                /\ \A j \in 1..Len(doc.actors) :
                       /\ Matches(m_actors'[n + j], doc.actors[j])
                       /\ m_actors'[n + j] \notin Range(moved'.actors)
                /\ Cardinality(Range(m_actors')) = Len(m_actors')
      ]_vars

\* Scene::Read was given two prototypes whose names differ in case only and
\* two actors, while the container held an Actor: the Factory holds the
\* second prototype, and the container the three Actors
C20_Witness ==
    /\ sLast.op = "Scene::Read"
    /\ Len(sLast.doc.prototypes) = 2
    /\ FactoryKey(sLast.doc.prototypes[1].name) = FactoryKey(sLast.doc.prototypes[2].name)
    /\ sLast.doc.prototypes[1].name # sLast.doc.prototypes[2].name
    /\ actors[m_registry[FactoryKey(sLast.doc.prototypes[2].name)].m_prototype].name
           = sLast.doc.prototypes[2].name
    /\ Len(sLast.doc.actors) = 2
    /\ Len(m_actors) = 3
    /\ actors[m_actors[2]].name = sLast.doc.actors[1].name
    /\ actors[m_actors[3]].name = sLast.doc.actors[2].name

\* ----------------------------------------- claims about loading a Scene
\* the calls of Start in a trace, on Actors and on Components
StartsIn(trace) ==
    EventsOf(trace, "Actor::Start") \cup EventsOf(trace, "Component::Start")

StartedIn(trace) == { trace[n].actor : n \in EventsOf(trace, "Actor::Start") }

\* C22: when Scene::Load returns true, Start() has been called on every
\* Actor that was loaded, so that no separate call of Scene::Start is needed.
C22_LoadStartsActors ==
    [][ (SceneCall("Scene::Load") /\ sLast'.ret = 1) =>
            StartedIn(sLast'.trace) = 1..Len(m_actors')
      ]_vars

\* C23: Scene::Start invokes Start() exactly once on every Actor of the
\* container, in insertion order, and neither adds an Actor to the container
\* nor removes one.
C23_StartEachOnceInOrder ==
    [][ SceneCall("Scene::Start") =>
            LET starts == SelectSeq(sLast'.trace, LAMBDA e : e.ev = "Actor::Start")
            IN  /\ [ n \in 1..Len(starts) |-> starts[n].actor ]
                       = Places(Len(m_actors))
                /\ Len(m_actors') = Len(m_actors)
                /\ \A i \in 1..Len(m_actors) :
                       /\ m_actors[i] \in DOMAIN moved'.actors
                       /\ m_actors'[i] = moved'.actors[m_actors[i]]
      ]_vars

\* Scene::Start has returned on a container of two Actors, the second of
\* them inactive
C23_Witness ==
    /\ sLast.op = "Scene::Start"
    /\ sLast.ret = 1
    /\ Len(m_actors) = 2
    /\ actors[m_actors[1]].active
    /\ ~actors[m_actors[2]].active
    /\ Len(sLast.trace) > 2

\* a component entry of this type is attached under registry reg: the type
\* is there, something is registered under it, and what is registered makes
\* a Component (a prototype is an Actor)
Attachable(reg, type) ==
    /\ type # NoType
    /\ RegistryFind(reg, FactoryKey(type)).kind = "Creator"
    /\ ObjIsA(RegistryFind(reg, FactoryKey(type)).T, "Component")

\* the entries of a components list that are attached, in list order
Attached(reg, list) == SelectSeq(list, LAMBDA c : Attachable(reg, c.type))

\* how many Components an Actor has when Create<Actor>("Actor") returns it,
\* after the step: those of the prototype that is registered under "Actor",
\* if one is
GivenComponents ==
    LET e == RegistryFind(m_registry', FactoryKey(ActorName))
    IN  IF e.kind = "PrototypeCreator" THEN Len(actors'[e.m_prototype].m_components)
        ELSE 0

\* C24: Actor::Read attaches exactly the Components of the components list
\* whose type is present and registered as a Component, in list order; an
\* entry whose type is missing, unregistered or registered as something else
\* is skipped, and the entries before and after it are attached all the same.
C24_ReadAttachesRegistered ==
    [][ (SceneCall("Scene::Load") /\ Len(m_actors') = Len(sLast'.doc.actors)) =>
            \A j \in 1..Len(m_actors') :
                LET all == actors'[m_actors'[j]].m_components
                    cs == SubSeq(all, GivenComponents + 1, Len(all))
                    want == Attached(m_registry', sLast'.doc.actors[j].components)
                IN  /\ Len(cs) = Len(want)
                    /\ \A k \in 1..Len(want) :
                           /\ components'[cs[k]].type
                                  = RegistryFind(m_registry', FactoryKey(want[k].type)).T
                           /\ components'[cs[k]].type = "RotationComponent"
                                  => components'[cs[k]].rotate = want[k].rotate
      ]_vars

\* an Actor was read whose second component of three has a type that a
\* prototype is registered under: the Actor has the first and the third
C24_Witness ==
    /\ sLast.op = "Scene::Load"
    /\ Len(m_actors) = 2
    /\ sLast.doc.actors[1].components[2].type = <<66, 97, 114>>
    /\ RegistryFind(m_registry, FactoryKey(<<66, 97, 114>>)).kind = "PrototypeCreator"
    /\ Len(actors[m_actors[1]].m_components) = 2
    /\ components[actors[m_actors[1]].m_components[1]].type = "RotationComponent"
    /\ components[actors[m_actors[1]].m_components[2]].type = "ModelRenderer"

\* the step is a call of Scene::Load on a file that parses, made while
\* Factory::Create<Actor>("Actor") yields nothing
LoadWithoutActor ==
    /\ sLast' # sLast
    /\ sLast'.op \in { "Scene::Load", "terminated" }
    /\ sLast'.force
    /\ ~ActorIsRegistered

\* C25: when the Factory fails to create the base Actor for an entry,
\* Scene::Read skips the entry and goes on with the entries that remain,
\* and does not dereference the empty result: the call returns, and no Actor
\* was added for the entry.
C25_FailedEntryIsSkipped ==
    [][ LoadWithoutActor =>
            /\ sLast'.op = "Scene::Load"
            /\ m_actors' = << >>
      ]_vars

\* C26: when the file cannot be read or parsed, Scene::Load returns false
\* and leaves the container and the registry of the Factory as they were;
\* when it parses, Load returns true, whatever fails for the items inside
\* Read.
C26_LoadReturnsParsed ==
    [][ (sLast' # sLast /\ sLast'.op \in { "Scene::Load", "terminated" }) =>
            /\ sLast'.op = "Scene::Load"
            /\ sLast'.force => sLast'.ret = 1
            /\ ~sLast'.force =>
                   /\ sLast'.ret = 0
                   /\ m_actors' = m_actors
                   /\ m_registry' = m_registry
      ]_vars

\* ------------------------------------------- claims about copying an Actor
\* C27: an Actor made by the copy constructor, and so by Clone and by Create
\* from a prototype, has the name, active, lifespan and persistent values of
\* its source, and one Component per Component of the source, in the same
\* order.  The Actor that Scene::AddActor(Instantiate(name)) has added is
\* compared with the prototype registered under its name.
C27_CloneEqualsSource ==
    [][ SceneCall("Scene::AddActor") =>
            LET b == m_actors'[Len(m_actors')]
                p == m_registry'[FactoryKey(actors'[b].name)].m_prototype
                cb == actors'[b].m_components
                cp == actors'[p].m_components
            IN  /\ actors'[b].name = actors'[p].name
                /\ actors'[b].active = actors'[p].active
                /\ actors'[b].lifespan = actors'[p].lifespan
                /\ actors'[b].persistent = actors'[p].persistent
                /\ Len(cb) = Len(cp)
                /\ \A k \in 1..Len(cp) :
                       /\ components'[cb[k]].type = components'[cp[k]].type
                       /\ components'[cb[k]].rotate = components'[cp[k]].rotate
                       /\ components'[cb[k]].active = components'[cp[k]].active
      ]_vars

\* ------------------------------------------ claims about finding an Actor
\* the places in the container of the Actors whose name is name when the
\* case of the letters is ignored
NamedLike(name) ==
    { i \in 1..Len(m_actors) : toLower(actors[m_actors[i]].name) = toLower(name) }

EventCall(op) == eLast' # eLast /\ eLast'.op = op

\* the registrations in force whose id is id when case is ignored, in the
\* order they were made
RegisteredFor(id) == SelectSeq(added, LAMBDA r : toLower(r.id) = toLower(id))

\* C29: Notify(event) invokes OnNotify once per registration, in
\* registration order, on exactly the observers registered under an id whose
\* lowercase form is that of event.id, passing the event; when there is no
\* such registration it invokes no observer and changes no state.
C29_NotifyInRegistrationOrder ==
    [][ EventCall("Notify") =>
            LET regs == RegisteredFor(eLast'.id)
            IN  /\ eLast'.calls = [ n \in 1..Len(regs) |->
                                      [ observer |-> regs[n].observer,
                                        id |-> eLast'.id ] ]
                /\ regs = << >> =>
                       /\ eLast'.calls = << >>
                       /\ m_observers' = m_observers
      ]_vars

\* two observers are registered under "Foo" and "foo", the second first, and
\* one under "Bar"; Notify of "Foo" has called the second, then the first
C29_Witness ==
    /\ eLast.op = "Notify"
    /\ eLast.id = <<70, 111, 111>>
    /\ added = << [ id |-> <<102, 111, 111>>, observer |-> "second" ],
                  [ id |-> <<66, 97, 114>>, observer |-> "second" ],
                  [ id |-> <<70, 111, 111>>, observer |-> "first" ] >>
    /\ Len(eLast.calls) = 2
    /\ eLast.calls[1].observer = "second"
    /\ eLast.calls[2].observer = "first"

\* how often observer o occurs in a sequence of records
TimesIn(q, o) == Cardinality({ n \in 1..Len(q) : q[n].observer = o })

\* C30: an observer that is registered k times under the same canonical id
\* receives exactly k calls of OnNotify for each Notify of that id.
C30_OneCallPerRegistration ==
    [][ EventCall("Notify") =>
            \A o \in Observers :
                TimesIn(eLast'.calls, o) = TimesIn(RegisteredFor(eLast'.id), o)
      ]_vars

\* an observer registered three times under one canonical id was called
\* three times by one Notify
C30_Witness ==
    /\ eLast.op = "Notify"
    /\ \E o \in Observers :
           /\ TimesIn(RegisteredFor(eLast.id), o) = 3
           /\ TimesIn(eLast.calls, o) = 3

\* the observers that some list of the map holds
Subscribed(obs) == UNION { Range(obs[k]) : k \in DOMAIN obs }

\* sequence q is sequence p with the occurrences of observer o left out: the
\* elements other than o are as many and in the same relative order
IsRestOf(q, p, o) ==
    /\ \A n \in 1..Len(q) : q[n] # o
    /\ \E f \in [ 1..Len(q) -> 1..Len(p) ] :
           /\ \A n \in 1..Len(q) : q[n] = p[f[n]]
           /\ \A m, n \in 1..Len(q) : m < n => f[m] < f[n]
           /\ \A j \in 1..Len(p) : p[j] # o => \E n \in 1..Len(q) : f[n] = j

\* C31: after RemoveObserver(o), o is in no list of the map, and the other
\* observers of each list are in the order they were in; o is in a list
\* again, and so notified again, only by an AddObserver call for o; and the
\* map never holds an empty list.
C31_RemovedEverywhere ==
    [][ /\ EventCall("RemoveObserver") =>
               /\ eLast'.observer \notin Subscribed(m_observers')
               /\ \A k \in DOMAIN m_observers :
                      IsRestOf(IF k \in DOMAIN m_observers' THEN m_observers'[k]
                               ELSE << >>,
                               m_observers[k], eLast'.observer)
               /\ DOMAIN m_observers' \subseteq DOMAIN m_observers
        /\ \A o \in Subscribed(m_observers') \ Subscribed(m_observers) :
               EventCall("AddObserver") /\ eLast'.observer = o
        /\ EventCall("Notify") =>
               \A n \in 1..Len(eLast'.calls) :
                   eLast'.calls[n].observer \in Subscribed(m_observers)
        /\ \A k \in DOMAIN m_observers' : m_observers'[k] # << >>
      ]_vars

\* RemoveObserver("first") has returned: the map holds one list, with the
\* two other observers in the order they were registered in
C31_Witness ==
    /\ eLast.op = "RemoveObserver"
    /\ added = << [ id |-> <<102, 111, 111>>, observer |-> "second" ],
                  [ id |-> <<70, 111, 111>>, observer |-> "third" ] >>
    /\ DOMAIN m_observers = { <<102, 111, 111>> }
    /\ m_observers[<<102, 111, 111>>] = << "second", "third" >>
    /\ eLast.observer = "first"

\* ------------------------------- claims about the Components of an Actor
\* the Components, by place, that method ev was called on in the trace, in
\* the order of the calls
CompsCalled(trace, ev) ==
    LET calls == SelectSeq(trace, LAMBDA e : e.ev = ev)
    IN  [ n \in 1..Len(calls) |-> calls[n].comp ]

\* the places of the Components of Actor a that are active, in attachment
\* order
ActivePlaces(a) ==
    SelectSeq(Places(Len(actors[a].m_components)),
              LAMBDA j : components[actors[a].m_components[j]].active)

\* the places of the active Components of Actor a that are
\* RendererComponents
ActiveRendererPlaces(a) ==
    SelectSeq(ActivePlaces(a),
              LAMBDA j : components[actors[a].m_components[j]].type = "ModelRenderer")

\* C32: on an Actor that is not destroyed and whose lifespan does not run
\* out in the call, Actor::Update invokes Update on exactly the Components
\* with active == true, in attachment order; on an Actor that is not
\* destroyed, Actor::Draw invokes Draw on exactly the active Components that
\* are RendererComponents, in attachment order.
C32_ActiveComponentsInOrder ==
    [][ /\ SceneCall("Actor::Update") =>
               LET a == m_actors[CalledActor(sLast')]
               IN  (~actors[a].destroyed /\ ~actors'[moved'.actors[a]].destroyed) =>
                       CompsCalled(sLast'.trace, "Component::Update") = ActivePlaces(a)
        /\ SceneCall("Actor::Draw") =>
               LET a == m_actors[CalledActor(sLast')]
               IN  ~actors[a].destroyed =>
                       CompsCalled(sLast'.trace, "Component::Draw")
                           = ActiveRendererPlaces(a)
      ]_vars

\* Actor::Draw was called on an Actor with an active RotationComponent and
\* behind it an active ModelRenderer, and has drawn the second alone
C32_Witness ==
    /\ sLast.op = "Actor::Draw"
    /\ LET a == m_actors[CalledActor(sLast)]
       IN  /\ ~actors[a].destroyed
           /\ Len(actors[a].m_components) = 2
           /\ \A j \in 1..2 : components[actors[a].m_components[j]].active
           /\ components[actors[a].m_components[1]].type = "RotationComponent"
           /\ CompsCalled(sLast.trace, "Component::Draw") = << 2 >>

\* ------------------------------- claims about the order of the container
\* the place of Actor x in list q
PlaceOf(q, x) == CHOOSE k \in 1..Len(q) : q[k] = x

\* the Actors, by place, that method ev was called on in the trace, in the
\* order of the calls
ActorsCalled(trace, ev) ==
    LET calls == SelectSeq(trace, LAMBDA e : e.ev = ev)
    IN  [ n \in 1..Len(calls) |-> calls[n].actor ]

\* the numbers of sequence q grow from each to the next
Ascending(q) == \A m, n \in 1..Len(q) : m < n => q[m] < q[n]

\* the places in the container of the Actors that are still in it after the
\* step
Survivors ==
    { i \in 1..Len(m_actors) :
          /\ m_actors[i] \in DOMAIN moved'.actors
          /\ moved'.actors[m_actors[i]] \in Range(m_actors') }

\* C33: the order of the Actors in the container is the order they were put
\* in, and no call changes it: Update and Draw visit the Actors in that
\* order, a Scene::Update that reaps nothing leaves the sequence as it was,
\* a reap and RemoveAllActors keep the survivors in their order, and an
\* Actor that is added comes behind those that were there.
C33_InsertionOrderKept ==
    [][ sLast' # sLast =>
            /\ \A i, j \in Survivors :
                   i < j => PlaceOf(m_actors', moved'.actors[m_actors[i]])
                                < PlaceOf(m_actors', moved'.actors[m_actors[j]])
            /\ \A k \in 1..Len(m_actors') :
                   m_actors'[k] \notin { moved'.actors[m_actors[i]] : i \in Survivors }
                       => \A i \in Survivors :
                              PlaceOf(m_actors', moved'.actors[m_actors[i]]) < k
            /\ sLast'.op = "Scene::Update" =>
                   /\ Ascending(ActorsCalled(sLast'.trace, "Actor::Update"))
                   /\ EventsOf(sLast'.trace, "erase") = { } =>
                          /\ Len(m_actors') = Len(m_actors)
                          /\ Survivors = 1..Len(m_actors)
            /\ sLast'.op = "Scene::Draw" =>
                   /\ Ascending(ActorsCalled(sLast'.trace, "Actor::Draw"))
                   /\ Survivors = 1..Len(m_actors)
                   /\ Len(m_actors') = Len(m_actors)
      ]_vars

\* Scene::Update has updated two Actors and reaped one that was not the last
\* of the container, and two Actors are left
C33_Witness ==
    /\ sLast.op = "Scene::Update"
    /\ Len(ActorsCalled(sLast.trace, "Actor::Update")) >= 2
    /\ \E n \in EventsOf(sLast.trace, "erase") :
           sLast.trace[n].actor < 3 /\ Len(sLast.trace[n].list) = 2
    /\ Len(m_actors) = 2

C35_ReadStartsFromBareActor ==
    [][ (SceneCall("Scene::Load") /\ Len(m_actors') = Len(sLast'.doc.actors)) =>
            \A j \in 1..Len(m_actors') :
                Len(actors'[m_actors'[j]].m_components)
                    = Len(Attached(m_registry', sLast'.doc.actors[j].components))
      ]_vars

SpawnedInStep ==
    \E n \in EventsOf(sLast'.trace, "Component::Update") :
        sLast'.trace[n].actor = sLast'.ret

\* C37: when Update of a Component calls Scene::AddActor on its own Scene in
\* the update phase of Scene::Update, the iteration stays valid: every Actor
\* that was in the container when the call began is offered Update exactly
\* once, in order, and the new Actor, which is active, is offered Update in
\* that same call, behind them.
C37_AddedActorIsUpdated ==
    [][ (SceneCall("Scene::Update") /\ SpawnedInStep) =>
            LET n == Len(m_actors)
            IN  ActorsCalled(sLast'.trace, "Actor::Update")
                    = SelectSeq(Places(n), LAMBDA i : actors[m_actors[i]].active)
                          \o << n + 1 >>
      ]_vars

\* Update of a Component of the first of two Actors added a third, and all
\* three were updated
C37_Witness ==
    /\ sLast.op = "Scene::Update"
    /\ sLast.ret = 1
    /\ ActorsCalled(sLast.trace, "Actor::Update") = << 1, 2, 3 >>
    /\ Len(m_actors) = 3

\* ------------------------------------- claims about starting the Actors
\* the call before this one has invoked Start() on the Actor at place i
StartedByLastCall(i) ==
    \/ sLast.op = "Scene::Start"
    \/ sLast.op = "Scene::AddActor" /\ sLast.force /\ i = Len(m_actors)

\* the call before this one has put the Actor at place i in the container
\* and has not invoked Start() on it
AddedUnstartedByLastCall(i) ==
    \/ sLast.op = "Scene::Read" /\ i > Len(m_actors) - Len(sLast.doc.actors)
    \/ sLast.op = "Scene::AddActor" /\ ~sLast.force /\ i = Len(m_actors)

\* C38 as stated, for two calls that follow one another: over AddActor,
\* Scene::Read and Scene::Start calls no Actor's Start() is invoked more than
\* once, so that a call does not start an Actor that the call before it has
\* started; and every Actor has had Start() invoked before its first Update,
\* so that Scene::Update does not update an Actor that the call before it
\* has added without starting it.
C38_StartedOnceBeforeUpdate ==
    [][ sLast' # sLast =>
            \A i \in 1..Len(m_actors) :
                /\ StartedByLastCall(i) => i \notin StartedIn(sLast'.trace)
                /\ (AddedUnstartedByLastCall(i) /\ sLast'.op = "Scene::Update") =>
                       \A n \in EventsOf(sLast'.trace, "Actor::Update") :
                           sLast'.trace[n].actor # i
      ]_vars

\* C38, amended: AddActor invokes Start() on the Actor it adds, once, if
\* its start flag is true and not otherwise, Scene::Read invokes no Start(),
\* and every Scene::Start call invokes Start() once on every Actor that is
\* in the container, started before or not; Scene::Update invokes no
\* Start() and offers Update to every active Actor, started or not.
C38_StartPerCall ==
    [][ /\ SceneCall("Scene::AddActor") =>
               ActorsCalled(sLast'.trace, "Actor::Start")
                   = IF sLast'.force THEN << Len(m_actors) + 1 >> ELSE << >>
        /\ SceneCall("Scene::Read") =>
               ActorsCalled(sLast'.trace, "Actor::Start") = << >>
        /\ SceneCall("Scene::Start") =>
               ActorsCalled(sLast'.trace, "Actor::Start") = Places(Len(m_actors))
        /\ SceneCall("Scene::Update") =>
               /\ ActorsCalled(sLast'.trace, "Actor::Start") = << >>
               /\ ActorsCalled(sLast'.trace, "Actor::Update")
                      = SelectSeq(Places(Len(m_actors)),
                                  LAMBDA i : actors[m_actors[i]].active)
      ]_vars

\* Scene::Start has started the three Actors of the container
C38_Witness ==
    /\ sLast.op = "Scene::Start"
    /\ Len(m_actors) = 3
    /\ ActorsCalled(sLast.trace, "Actor::Start") = << 1, 2, 3 >>

\* ------------------------------------------ claims about inactive Actors
\* C39: Scene::Update does not offer Update to an Actor with active ==
\* false: none of its Components is updated, its lifespan does not count
\* down and the call does not destroy it, so it stays in the container as it
\* was; but if its destroyed flag is true the same call reaps it: Destroyed()
\* is called on it, once, and then it is erased.
C39_InactiveSkippedButReaped ==
    [][ SceneCall("Scene::Update") =>
            \A i \in 1..Len(m_actors) :
                LET a == m_actors[i]
                    t == sLast'.trace
                IN  ~actors[a].active =>
                        /\ \A n \in EventsOf(t, "Actor::Update")
                                        \cup EventsOf(t, "Component::Update") :
                               t[n].actor # i
                        /\ IF actors[a].destroyed
                           THEN /\ Cardinality({ n \in DestroyedCalls(t) :
                                                     t[n].actor = i }) = 1
                                /\ \E n \in DestroyedCalls(t), r \in EventsOf(t, "erase") :
                                       t[n].actor = i /\ t[r].actor = i /\ n < r
                                /\ a \notin DOMAIN moved'.actors
                           ELSE /\ a \in DOMAIN moved'.actors
                                /\ moved'.actors[a] \in Range(m_actors')
                                /\ actors'[moved'.actors[a]].lifespan
                                       = actors[a].lifespan
                                /\ ~actors'[moved'.actors[a]].destroyed
      ]_vars

\* a Scene::Update call has reaped an Actor that it did not update, and has
\* left an inactive Actor with a lifespan above zero in the container
C39_Witness ==
    /\ sLast.op = "Scene::Update"
    /\ \E n \in DestroyedCalls(sLast.trace) :
           sLast.trace[n].actor
               \notin Range(ActorsCalled(sLast.trace, "Actor::Update"))
    /\ \E a \in Range(m_actors) :
           /\ ~actors[a].active
           /\ actors[a].lifespan > 0
           /\ ~actors[a].destroyed

\* -------------------------- claims about observers that change the lists
\* the observers that the calls of a dispatch went to, in order
Notified(calls) == [ n \in 1..Len(calls) |-> calls[n].observer ]

\* the observers that the AddObserver calls made in a dispatch have added
AddedInDispatch(fired) ==
    LET adds == SelectSeq(fired, LAMBDA f : f.kind = "add")
    IN  [ n \in 1..Len(adds) |-> adds[n].observer ]

\* how many times o is in the sequence q
Occurrences(q, o) == Cardinality({ n \in 1..Len(q) : q[n] = o })

\* C40 as stated: one Notify call delivers the event exactly to the
\* observers that were registered under the event's id when the call began,
\* each once per registration, whatever the observers' OnNotify does with
\* the EventManager during the dispatch; and no call goes to an observer
\* that is not in the list when it is called.
C40_DeliversToRegisteredAtBegin ==
    [][ EventCall("Notify") =>
            /\ \A o \in Observers :
                   Occurrences(Notified(eLast'.calls), o)
                       = Occurrences(Bucket(m_observers, ObserverKey(eLast'.id)), o)
            /\ \A n \in 1..Len(eLast'.calls) :
                   eLast'.calls[n].observer \in Range(eLast'.lists[n])
      ]_vars

\* C40, amended: one Notify call delivers the event exactly to the observers
\* that were registered under the event's id when the call began, each once
\* per registration and in their order, if no OnNotify calls AddObserver or
\* RemoveObserver during the dispatch.  If OnNotify calls only AddObserver,
\* for the event's id, the observers added are called too in the same
\* Notify call, behind the others.  As long as no OnNotify removes the
\* observer that is being notified, every call goes to an observer that is
\* in the list when it is called: a registration removed before the loop
\* has reached it gets no call.
C40_DispatchFollowsList ==
    [][ EventCall("Notify") =>
            LET begun == Bucket(m_observers, ObserverKey(eLast'.id))
                fired == eLast'.fired
            IN  /\ fired = << >> => Notified(eLast'.calls) = begun
                /\ (\A n \in 1..Len(fired) : fired[n].kind = "add") =>
                       /\ Notified(eLast'.calls) = begun \o AddedInDispatch(fired)
                       /\ eLast'.ub = "none"
                /\ eLast'.ub = "none" =>
                       \A n \in 1..Len(eLast'.calls) :
                           eLast'.calls[n].observer \in Range(eLast'.lists[n])
                /\ eLast'.ub # "none" =>
                       \E n \in 1..Len(fired) :
                           /\ fired[n].kind = "remove"
                           /\ fired[n].observer = eLast'.calls[fired[n].at].observer
      ]_vars

\* a Notify call for a list of two observers has returned: the first has
\* added a third, which was called in the same dispatch, and the second has
\* removed the first
C40_Witness ==
    /\ eLast.op = "Notify"
    /\ eLast.ub = "none"
    /\ Notified(eLast.calls) = << "first", "second", "third" >>
    /\ eLast.fired = << [ at |-> 1, kind |-> "add", observer |-> "third" ],
                        [ at |-> 2, kind |-> "remove", observer |-> "first" ] >>

====
